---- MODULE Spec2Model ----
(***************************************************************************)
(* Model of the task-master tool handlers that mutate tasks.json:          *)
(* set_task_status, add_subtask, remove_subtask, clear_subtasks and        *)
(* add_dependency, with the helpers of utils.js they call.                 *)
(*                                                                         *)
(* A JavaScript string is a sequence of one-character strings, so that     *)
(* parseInt, split, trim and includes are computed as the code computes    *)
(* them.  A dependency entry is a JavaScript value that is a number or a   *)
(* string; it is a record tagged with its type.  A timestamp               *)
(* (new Date().toISOString()) is the value of a clock that advances with   *)
(* every call.  An absent field (undefined) is modelled by the value the   *)
(* code's truthiness tests treat the same way: an absent subtasks or       *)
(* dependencies array by the empty sequence, an absent parentTaskId by 0.  *)
(***************************************************************************)
EXTENDS Integers, Sequences, FiniteSets, TLC

VARIABLES
    file,   \* .taskmaster/tasks/tasks.json: [exists, tasks]
    resp,   \* the response envelope of the last call
    now,    \* the clock: the timestamp of the last call
    callers, \* the calls in flight in other server processes: what each
             \* has loaded and where it stands (empty when calls run one by
             \* one)
    stack    \* the frames of a running buildRelevantTasksChain, innermost
             \* last (empty when none runs)

vars == <<file, resp, now, callers, stack>>

\* Bound of the model: the number of tool calls in a run.
MaxCalls == 2

(***************************************************************************)
(* JavaScript strings and numbers                                          *)
(***************************************************************************)

\* The value of parseInt on a string with no leading digits.  NaN === x is
\* false for every x; no task id of the model is negative.
NaN == 0 - 1

DigitVal ==
    [c \in {"0", "1", "2", "3", "4", "5", "6", "7", "8", "9"} |->
        CASE c = "0" -> 0 [] c = "1" -> 1 [] c = "2" -> 2 [] c = "3" -> 3
          [] c = "4" -> 4 [] c = "5" -> 5 [] c = "6" -> 6 [] c = "7" -> 7
          [] c = "8" -> 8 [] c = "9" -> 9]

DigitChar == <<"0", "1", "2", "3", "4", "5", "6", "7", "8", "9">>

IsDigit(c) == c \in DOMAIN DigitVal

\* String.prototype.includes for a one-character needle.
Includes(s, ch) == \E i \in 1..Len(s) : s[i] = ch

RECURSIVE SkipWs(_)
SkipWs(s) == IF s # <<>> /\ Head(s) = " " THEN SkipWs(Tail(s)) ELSE s

RECURSIVE DropTrailingWs(_)
DropTrailingWs(s) ==
    IF s # <<>> /\ s[Len(s)] = " "
    THEN DropTrailingWs(SubSeq(s, 1, Len(s) - 1))
    ELSE s

\* String.prototype.trim
Trim(s) == DropTrailingWs(SkipWs(s))

RECURSIVE ParseDigits(_, _, _)
ParseDigits(s, acc, seen) ==
    IF s # <<>> /\ IsDigit(Head(s))
    THEN ParseDigits(Tail(s), acc * 10 + DigitVal[Head(s)], TRUE)
    ELSE IF seen THEN acc ELSE NaN

\* parseInt(s, 10) on a string without a sign: leading white space is
\* skipped, the longest prefix of digits is read, anything after it is
\* ignored, and no digit at all gives NaN.
parseInt(s) == ParseDigits(SkipWs(s), 0, FALSE)

RECURSIVE SplitFrom(_, _, _)
SplitFrom(s, sep, cur) ==
    IF s = <<>> THEN <<cur>>
    ELSE IF Head(s) = sep THEN <<cur>> \o SplitFrom(Tail(s), sep, <<>>)
    ELSE SplitFrom(Tail(s), sep, Append(cur, Head(s)))

\* String.prototype.split for a one-character separator.
Split(s, sep) == SplitFrom(s, sep, <<>>)

RECURSIVE NatToString(_)
NatToString(n) ==
    IF n < 10 THEN <<DigitChar[n + 1]>>
    ELSE NatToString(n \div 10) \o <<DigitChar[(n % 10) + 1]>>

\* A JavaScript value that is a number or a string.
Num(n) == [type |-> "number", num |-> n, str |-> <<>>]
Str(s) == [type |-> "string", num |-> 0, str |-> s]

\* value.toString()
toString(v) ==
    IF v.type = "string" THEN v.str
    ELSE IF v.num = NaN THEN <<"N", "a", "N">>
    ELSE NatToString(v.num)

(***************************************************************************)
(* The task collection                                                     *)
(***************************************************************************)

validStatuses ==
    {"pending", "in-progress", "done", "completed", "blocked", "deferred",
     "cancelled"}

\* utils.js isValidTaskStatus
isValidTaskStatus(status) == status \in validStatuses

\* A task or a subtask.
Task(id, status, priority, deps, subs) ==
    [id |-> id, status |-> status, priority |-> priority,
     dependencies |-> deps, subtasks |-> subs, parentTaskId |-> 0,
     updatedAt |-> 0]

Sub(parent, id, status, deps) ==
    [Task(id, status, "unset", deps, <<>>) EXCEPT !.parentTaskId = parent]

\* tasks.find(t => t.id === id): the index of the first match, 0 if none.
FindIndex(seq, id) ==
    IF \E i \in 1..Len(seq) : seq[i].id = id
    THEN CHOOSE i \in 1..Len(seq) :
            /\ seq[i].id = id
            /\ \A j \in 1..(i - 1) : seq[j].id # id
    ELSE 0

NotFound == [found |-> FALSE, isSubtask |-> FALSE, ti |-> 0, si |-> 0]

\* utils.js findTaskById: the task (or subtask and its parent) an id string
\* denotes, as positions in the tasks array.
findTaskById(tasks, idStr) ==
    IF Includes(idStr, ".")
    THEN LET parts == Split(idStr, ".")
             ti    == FindIndex(tasks, parseInt(parts[1]))
             si    == IF ti = 0 THEN 0
                      ELSE FindIndex(tasks[ti].subtasks, parseInt(parts[2]))
         IN  IF ti # 0 /\ si # 0
             THEN [found |-> TRUE, isSubtask |-> TRUE, ti |-> ti, si |-> si]
             ELSE NotFound
    ELSE LET ti == FindIndex(tasks, parseInt(idStr))
         IN  IF ti # 0
             THEN [found |-> TRUE, isSubtask |-> FALSE, ti |-> ti, si |-> 0]
             ELSE NotFound

\* result.task of findTaskById
TaskAt(tasks, r) ==
    IF r.isSubtask THEN tasks[r.ti].subtasks[r.si] ELSE tasks[r.ti]

\* writeJSON as it would be if the document were stored and the failure
\* reported afterwards.
writeJSONStoredThenFailed(f, tasks, ioOk) ==
    [ok |-> ioOk, file |-> [exists |-> TRUE, tasks |-> tasks]]

\* utils.js writeJSON: the whole document is overwritten; a failed write
\* returns false and leaves the stored document as it was.
writeJSON(f, tasks, ioOk) ==
    IF ioOk THEN [ok |-> TRUE, file |-> [exists |-> TRUE, tasks |-> tasks]]
    ELSE [ok |-> FALSE, file |-> f]

\* The response envelope: createErrorResponse / createContentResponse.
\* op is the tool; of a success, args are the id strings the tool was called
\* with, kind the status set or the operation performed, updated the ids the
\* call changed and errors the ids it reports an error for; of an error,
\* kind is the error reported.
Response(op, args, isError, kind, updated, errors) ==
    [op |-> op, args |-> args, isError |-> isError, kind |-> kind,
     updated |-> updated, errors |-> errors]

ErrorResponse(op, kind) == Response(op, <<>>, TRUE, kind, <<>>, <<>>)

(***************************************************************************)
(* set_task_status                                                         *)
(***************************************************************************)

\* taskIds.split(',').map(id => id.trim())
SplitIds(taskIds) ==
    LET parts == Split(taskIds, ",")
    IN  [i \in 1..Len(parts) |-> Trim(parts[i])]

\* result.task.status = status
SetStatusAt(tasks, r, status) ==
    IF r.isSubtask
    THEN [tasks EXCEPT ![r.ti].subtasks[r.si].status = status]
    ELSE [tasks EXCEPT ![r.ti].status = status]

\* The loop of set_task_status as it would be if an id that is not found
\* ended the loop (all-or-nothing from the first failure on).
RECURSIVE SetStatusLoopAbort(_, _, _, _, _)
SetStatusLoopAbort(tasks, ids, status, updated, errors) ==
    IF ids = <<>>
    THEN [tasks |-> tasks, updated |-> updated, errors |-> errors]
    ELSE LET r == findTaskById(tasks, Head(ids))
         IN  IF ~r.found
             THEN [tasks |-> tasks, updated |-> updated,
                   errors |-> Append(errors, Head(ids))]
             ELSE SetStatusLoopAbort(SetStatusAt(tasks, r, status), Tail(ids),
                                     status, Append(updated, Head(ids)), errors)

\* The loop of set_task_status over the id list: an id that is not found
\* adds an error and the loop continues with the next id.
RECURSIVE SetStatusLoop(_, _, _, _, _)
SetStatusLoop(tasks, ids, status, updated, errors) ==
    IF ids = <<>>
    THEN [tasks |-> tasks, updated |-> updated, errors |-> errors]
    ELSE LET r == findTaskById(tasks, Head(ids))
         IN  IF ~r.found
             THEN SetStatusLoop(tasks, Tail(ids), status, updated,
                                Append(errors, Head(ids)))
             ELSE SetStatusLoop(SetStatusAt(tasks, r, status), Tail(ids),
                                status, Append(updated, Head(ids)), errors)

\* The handler of set_task_status: the stored document and the response
\* after the call.
set_task_status(f, taskIds, status, ioOk) ==
    IF ~isValidTaskStatus(status)
    THEN [file |-> f,
          resp |-> ErrorResponse("set_task_status", "invalid_status")]
    ELSE IF ~f.exists
    THEN [file |-> f,
          resp |-> ErrorResponse("set_task_status", "no_tasks")]
    ELSE
        LET loop == SetStatusLoop(f.tasks, SplitIds(taskIds), status, <<>>, <<>>)
            w    == writeJSON(f, loop.tasks, ioOk)
        IN  IF loop.updated # <<>> /\ ~w.ok
            THEN [file |-> w.file,
                  resp |-> ErrorResponse("set_task_status", "save_failed")]
            ELSE [file |-> IF loop.updated # <<>> THEN w.file ELSE f,
                  resp |-> Response("set_task_status", <<taskIds>>, FALSE,
                                    status, loop.updated, loop.errors)]

(***************************************************************************)
(* add_dependency                                                          *)
(***************************************************************************)

\* The value stored for dependsOn: the string itself for a subtask id, the
\* parsed number for a task id.
DependencyId(dependsOn) ==
    IF Includes(dependsOn, ".") THEN Str(dependsOn)
    ELSE Num(parseInt(dependsOn))

\* targetTask.dependencies.some(dep => dep === dependencyId ||
\*     dep.toString() === dependencyId.toString())
AlreadyExists(deps, dependencyId) ==
    \E i \in 1..Len(deps) :
        \/ deps[i] = dependencyId
        \/ toString(deps[i]) = toString(dependencyId)

\* targetTask.dependencies.push(dependencyId), and the timestamp: of the
\* parent for a subtask, of the task itself otherwise.
PushDependency(tasks, r, dependencyId, t) ==
    IF r.isSubtask
    THEN [tasks EXCEPT
            ![r.ti].subtasks[r.si].dependencies = Append(@, dependencyId),
            ![r.ti].updatedAt = t]
    ELSE [tasks EXCEPT
            ![r.ti].dependencies = Append(@, dependencyId),
            ![r.ti].updatedAt = t]

\* The handler of add_dependency.
add_dependency(f, taskId, dependsOn, ioOk, t) ==
    LET args     == <<taskId, dependsOn>>
        Err(k)   == [file |-> f, resp |-> ErrorResponse("add_dependency", k)]
        target   == findTaskById(f.tasks, taskId)
        dep      == findTaskById(f.tasks, dependsOn)
        depId    == DependencyId(dependsOn)
        w        == writeJSON(f, PushDependency(f.tasks, target, depId, t), ioOk)
    IN  IF ~f.exists THEN Err("no_tasks")
        ELSE IF ~target.found THEN Err("task_not_found")
        ELSE IF ~dep.found THEN Err("dependency_not_found")
        ELSE IF taskId = dependsOn THEN Err("self_dependency")
        ELSE IF AlreadyExists(TaskAt(f.tasks, target).dependencies, depId)
             THEN Err("already_depends")
        ELSE IF ~w.ok THEN [file |-> w.file,
                            resp |-> ErrorResponse("add_dependency", "save_failed")]
        ELSE [file |-> w.file,
              resp |-> Response("add_dependency", args, FALSE, "added",
                                <<taskId>>, <<>>)]

(***************************************************************************)
(* add_subtask                                                             *)
(***************************************************************************)

\* An optional argument that was not passed.
Undefined == 0 - 2

\* Math.max(...seq.map(x => x.id)) of a non-empty array
RECURSIVE MaxId(_)
MaxId(seq) ==
    IF Len(seq) = 1 THEN seq[1].id
    ELSE LET m == MaxId(Tail(seq))
         IN  IF seq[1].id > m THEN seq[1].id ELSE m

\* The next subtask id as it would be if it were the number of subtasks
\* plus one.
NextSubtaskIdByCount(subtasks) == Len(subtasks) + 1

\* highestSubtaskId + 1 of add_subtask
NextSubtaskId(subtasks) ==
    (IF Len(subtasks) > 0 THEN MaxId(subtasks) ELSE 0) + 1

\* The next task id as it would be if it were the number of tasks plus one.
getNextTaskIdByCount(tasks) == Len(tasks) + 1

\* utils.js getNextTaskId
getNextTaskId(tasks) ==
    IF Len(tasks) = 0 THEN 1 ELSE MaxId(tasks) + 1

\* array.splice(i, 1)
RemoveAt(seq, i) == SubSeq(seq, 1, i - 1) \o SubSeq(seq, i + 1, Len(seq))

\* "parentId.subtaskId"
CompositeId(parentId, subtaskId) ==
    NatToString(parentId) \o <<".">> \o NatToString(subtaskId)

\* The handler of add_subtask.  title is the title argument; the handler
\* only tests whether it is empty.
add_subtask(f, parentId, existingTaskId, title, deps, status, ioOk, t) ==
    LET Err(k)  == [file |-> f, resp |-> ErrorResponse("add_subtask", k)]
        pi      == FindIndex(f.tasks, parentId)
        ei      == FindIndex(f.tasks, existingTaskId)
        newId   == NextSubtaskId(f.tasks[pi].subtasks)
        converting == existingTaskId # Undefined
        newSubtask ==
            IF converting
            THEN [f.tasks[ei] EXCEPT !.id = newId, !.parentTaskId = parentId]
            ELSE [id |-> newId,
                  status |-> IF status = "" THEN "pending" ELSE status,
                  priority |-> "unset",
                  dependencies |-> deps,
                  subtasks |-> <<>>,
                  parentTaskId |-> parentId,
                  updatedAt |-> t]
        \* parentTask.subtasks.push(newSubtask); parentTask.updatedAt = now
        pushed  == [f.tasks EXCEPT ![pi].subtasks = Append(@, newSubtask),
                                   ![pi].updatedAt = t]
        \* data.tasks.splice(existingTaskIndex, 1)
        tasks2  == IF converting THEN RemoveAt(pushed, ei) ELSE pushed
        w       == writeJSON(f, tasks2, ioOk)
    IN  IF ~f.exists THEN Err("no_tasks")
        ELSE IF pi = 0 THEN Err("parent_not_found")
        ELSE IF converting /\ ei = 0 THEN Err("task_not_found")
        ELSE IF converting /\ f.tasks[ei].parentTaskId # 0
             THEN Err("already_subtask")
        ELSE IF converting /\ existingTaskId = parentId THEN Err("self_subtask")
        ELSE IF ~converting /\ title = "" THEN Err("title_required")
        ELSE IF ~w.ok THEN [file |-> w.file,
                            resp |-> ErrorResponse("add_subtask", "save_failed")]
        ELSE [file |-> w.file,
              resp |-> Response("add_subtask", <<>>, FALSE,
                                IF converting THEN "converted" ELSE "created",
                                <<CompositeId(parentId, newId)>>, <<>>)]

(***************************************************************************)
(* remove_subtask                                                          *)
(***************************************************************************)

\* One iteration of the loop of remove_subtask on the subtask at position si
\* of the task at position pi: the subtask is appended to the tasks as a
\* task with the next task id (convertToTask) or dropped, then spliced out
\* of its parent, whose timestamp is set.
RemoveOne(tasks, pi, si, convertToTask, t) ==
    LET subtask == tasks[pi].subtasks[si]
        newTask == [subtask EXCEPT !.id = getNextTaskId(tasks),
                                   !.updatedAt = t,
                                   !.parentTaskId = 0]
        tasks1  == IF convertToTask THEN Append(tasks, newTask) ELSE tasks
    IN  [tasks1 EXCEPT ![pi].subtasks = RemoveAt(@, si),
                       ![pi].updatedAt = t]

\* The loop of remove_subtask as it would be if the first id that is
\* malformed or not found ended the loop.
RECURSIVE RemoveLoopAbort(_, _, _, _, _, _)
RemoveLoopAbort(tasks, ids, convertToTask, t, done, errors) ==
    IF ids = <<>>
    THEN [tasks |-> tasks, updated |-> done, errors |-> errors]
    ELSE LET id    == Head(ids)
             parts == Split(id, ".")
             pi    == FindIndex(tasks, parseInt(parts[1]))
             si    == FindIndex(tasks[pi].subtasks, parseInt(parts[2]))
             Fail  == [tasks |-> tasks, updated |-> done,
                       errors |-> Append(errors, id)]
         IN  IF ~Includes(id, ".") THEN Fail
             ELSE IF pi = 0 THEN Fail
             ELSE IF Len(tasks[pi].subtasks) = 0 THEN Fail
             ELSE IF si = 0 THEN Fail
             ELSE RemoveLoopAbort(RemoveOne(tasks, pi, si, convertToTask, t),
                                  Tail(ids), convertToTask, t,
                                  Append(done, id), errors)

\* The loop of remove_subtask over the id list; done are the ids removed or
\* converted, errors the ids that were malformed or not found.
RECURSIVE RemoveLoop(_, _, _, _, _, _)
RemoveLoop(tasks, ids, convertToTask, t, done, errors) ==
    IF ids = <<>>
    THEN [tasks |-> tasks, updated |-> done, errors |-> errors]
    ELSE LET id    == Head(ids)
             parts == Split(id, ".")
             pi    == FindIndex(tasks, parseInt(parts[1]))
             si    == FindIndex(tasks[pi].subtasks, parseInt(parts[2]))
             Fail  == RemoveLoop(tasks, Tail(ids), convertToTask, t, done,
                                 Append(errors, id))
         IN  IF ~Includes(id, ".") THEN Fail
             ELSE IF pi = 0 THEN Fail
             ELSE IF Len(tasks[pi].subtasks) = 0 THEN Fail
             ELSE IF si = 0 THEN Fail
             ELSE RemoveLoop(RemoveOne(tasks, pi, si, convertToTask, t),
                             Tail(ids), convertToTask, t, Append(done, id),
                             errors)

\* The handler of remove_subtask.
remove_subtask(f, subtaskIds, convertToTask, ioOk, t) ==
    LET args == <<subtaskIds>>
        loop == RemoveLoop(f.tasks, SplitIds(subtaskIds), convertToTask, t,
                           <<>>, <<>>)
        w    == writeJSON(f, loop.tasks, ioOk)
    IN  IF ~f.exists
        THEN [file |-> f,
              resp |-> ErrorResponse("remove_subtask", "no_tasks")]
        ELSE IF loop.updated # <<>> /\ ~w.ok
        THEN [file |-> w.file,
              resp |-> ErrorResponse("remove_subtask", "save_failed")]
        ELSE [file |-> IF loop.updated # <<>> THEN w.file ELSE f,
              resp |-> Response("remove_subtask", args, FALSE,
                                IF convertToTask THEN "converted" ELSE "removed",
                                loop.updated, loop.errors)]

(***************************************************************************)
(* clear_subtasks                                                          *)
(***************************************************************************)

\* taskIds.split(',').map(id => parseInt(id.trim(), 10))
ParseIdList(taskIds) ==
    LET ids == SplitIds(taskIds)
    IN  [i \in 1..Len(ids) |-> parseInt(ids[i])]

\* The positions of the tasks clear_subtasks clears: the tasks that have
\* subtasks, all of them (all) or those named in taskIds.  An absent taskIds
\* is the empty string: the handler treats both alike.
ClearTargets(tasks, taskIds, all) ==
    IF all
    THEN {i \in 1..Len(tasks) : Len(tasks[i].subtasks) > 0}
    ELSE LET idList == ParseIdList(taskIds)
         IN  {i \in 1..Len(tasks) :
                 /\ \E k \in 1..Len(idList) : idList[k] = tasks[i].id
                 /\ Len(tasks[i].subtasks) > 0}

\* task.subtasks = []; task.updatedAt = now, for every target
ClearAll(tasks, targets, t) ==
    [i \in 1..Len(tasks) |->
        IF i \in targets
        THEN [tasks[i] EXCEPT !.subtasks = <<>>, !.updatedAt = t]
        ELSE tasks[i]]

\* The ids of the tasks at the positions in targets, in array order.
RECURSIVE TargetIds(_, _, _)
TargetIds(tasks, targets, i) ==
    IF i > Len(tasks) THEN <<>>
    ELSE (IF i \in targets THEN <<NatToString(tasks[i].id)>> ELSE <<>>)
         \o TargetIds(tasks, targets, i + 1)

\* The handler of clear_subtasks.
clear_subtasks(f, taskIds, all, ioOk, t) ==
    LET args    == <<taskIds>>
        targets == ClearTargets(f.tasks, taskIds, all)
        w       == writeJSON(f, ClearAll(f.tasks, targets, t), ioOk)
    IN  IF ~f.exists
        THEN [file |-> f,
              resp |-> ErrorResponse("clear_subtasks", "no_tasks")]
        ELSE IF ~all /\ taskIds = <<>>
        THEN [file |-> f,
              resp |-> ErrorResponse("clear_subtasks", "no_target")]
        ELSE IF targets = {}
        THEN [file |-> f,
              resp |-> Response("clear_subtasks", args, FALSE, "nothing",
                                <<>>, <<>>)]
        ELSE IF ~w.ok
        THEN [file |-> w.file,
              resp |-> ErrorResponse("clear_subtasks", "save_failed")]
        ELSE [file |-> w.file,
              resp |-> Response("clear_subtasks", args, FALSE,
                                IF all THEN "cleared_all" ELSE "cleared_selected",
                                TargetIds(f.tasks, targets, 1), <<>>)]

(***************************************************************************)
(* Inputs and initial states                                               *)
(***************************************************************************)

\* The taskIds strings set_task_status is called with.
StatusIdInputs ==
    { <<"1">>, <<"1", ".", "1">>, <<"9">>,
      <<"1", ",", "9">>, <<"9", ",", " ", "2">>,
      <<"2", ",", "1", ".", "2">>, <<"1", ".", "7", ",", "3">> }

StatusInputs == {"done", "in-progress", "bogus"}

\* Project A: three tasks, the first with two subtasks.
ProjectA ==
    << Task(1, "pending", "high",
            <<>>, << Sub(1, 1, "pending", <<>>), Sub(1, 2, "pending", <<>>) >>),
       Task(2, "pending", "medium", << Num(1) >>, <<>>),
       Task(3, "in-progress", "low", <<>>, <<>>) >>

\* Project B: two tasks, the second with one subtask that depends on task 1.
ProjectB ==
    << Task(1, "done", "medium", <<>>, <<>>),
       Task(2, "pending", "unset",
            <<>>, << Sub(2, 1, "pending", << Num(1) >>) >>) >>

InitialFiles ==
    { [exists |-> TRUE, tasks |-> ProjectA],
      [exists |-> TRUE, tasks |-> ProjectB],
      [exists |-> TRUE, tasks |-> <<>>],
      [exists |-> FALSE, tasks |-> <<>>] }

Init ==
    /\ file \in InitialFiles
    /\ resp = Response("none", <<>>, FALSE, "none", <<>>, <<>>)
    /\ now = 0
    /\ callers = <<>>
    /\ stack = <<>>

\* The task and subtask id strings add_dependency is called with: plain and
\* composite ids, ids with a leading zero, and an id of no task.
DependencyIdInputs ==
    { <<"1">>, <<"2">>, <<"3">>, <<"0", "1">>, <<"1", ".", "1">>,
      <<"1", ".", "0", "1">>, <<"2", ".", "1">>, <<"9">> }

\* The ids among them that are written as the tool describes them ("5",
\* "5.2"): decimal numbers without leading zeros or white space.
CanonicalIdInputs ==
    { <<"1">>, <<"2">>, <<"3">>, <<"1", ".", "1">>, <<"2", ".", "1">>, <<"9">> }

\* The arguments of add_subtask.
ParentIdInputs == {1, 2, 9}
ExistingTaskIdInputs == {Undefined, 2, 3}
TitleInputs == {"", "t"}
SubtaskStatusInputs == {"pending", "bogus"}
SubtaskDependencyInputs == { <<>>, << Num(1) >> }

\* The subtaskIds strings remove_subtask is called with.
RemoveIdInputs ==
    { <<"1", ".", "1">>, <<"2", ".", "1">>, <<"1">>,
      <<"1", ".", "1", ",", "1", ".", "2">>,
      <<"1", ".", "9", ",", "1", ".", "2">> }

\* The taskIds strings clear_subtasks is called with; the empty string is
\* also the absent argument.
ClearIdInputs == { <<>>, <<"1">>, <<"1", ",", " ", "2">>, <<"3">> }

SetTaskStatus ==
    /\ now < MaxCalls
    /\ \E taskIds \in StatusIdInputs, status \in StatusInputs, ioOk \in BOOLEAN :
          LET r == set_task_status(file, taskIds, status, ioOk)
          IN  /\ file' = r.file
              /\ resp' = r.resp
    /\ now' = now + 1
    /\ UNCHANGED <<callers, stack>>

\* A call of add_dependency with its two ids drawn from ids.
AddDependencyOn(ids) ==
    /\ now < MaxCalls
    /\ \E taskId \in ids, dependsOn \in ids, ioOk \in BOOLEAN :
          LET r == add_dependency(file, taskId, dependsOn, ioOk, now + 1)
          IN  /\ file' = r.file
              /\ resp' = r.resp
    /\ now' = now + 1
    /\ UNCHANGED <<callers, stack>>

AddDependency == AddDependencyOn(DependencyIdInputs)

AddDependencyCanonical == AddDependencyOn(CanonicalIdInputs)

AddSubtask ==
    /\ now < MaxCalls
    /\ \E parentId \in ParentIdInputs, existingTaskId \in ExistingTaskIdInputs,
          title \in TitleInputs, deps \in SubtaskDependencyInputs,
          status \in SubtaskStatusInputs, ioOk \in BOOLEAN :
          LET r == add_subtask(file, parentId, existingTaskId, title, deps,
                               status, ioOk, now + 1)
          IN  /\ file' = r.file
              /\ resp' = r.resp
    /\ now' = now + 1
    /\ UNCHANGED <<callers, stack>>

RemoveSubtask ==
    /\ now < MaxCalls
    /\ \E subtaskIds \in RemoveIdInputs, convertToTask \in BOOLEAN,
          ioOk \in BOOLEAN :
          LET r == remove_subtask(file, subtaskIds, convertToTask, ioOk, now + 1)
          IN  /\ file' = r.file
              /\ resp' = r.resp
    /\ now' = now + 1
    /\ UNCHANGED <<callers, stack>>

ClearSubtasks ==
    /\ now < MaxCalls
    /\ \E taskIds \in ClearIdInputs, all \in BOOLEAN, ioOk \in BOOLEAN :
          LET r == clear_subtasks(file, taskIds, all, ioOk, now + 1)
          IN  /\ file' = r.file
              /\ resp' = r.resp
    /\ now' = now + 1
    /\ UNCHANGED <<callers, stack>>

Next ==
    \/ SetTaskStatus
    \/ AddDependency
    \/ AddSubtask
    \/ RemoveSubtask
    \/ ClearSubtasks

Spec == Init /\ [][Next]_vars

\* The runs that call add_dependency only.
NextDeps == AddDependency

SpecDeps == Init /\ [][NextDeps]_vars

\* The runs that call add_dependency only, with canonical ids only.
NextDepsCanonical == AddDependencyCanonical

SpecDepsCanonical == Init /\ [][NextDepsCanonical]_vars

(***************************************************************************)
(* Properties                                                              *)
(***************************************************************************)

Range(seq) == {seq[i] : i \in 1..Len(seq)}

\* The tasks (<<i, 0>>) and subtasks (<<i, j>>) of the collection.
Nodes(tasks) ==
    {<<i, 0>> : i \in 1..Len(tasks)} \cup
    UNION {{<<i, j>> : j \in 1..Len(tasks[i].subtasks)} : i \in 1..Len(tasks)}

NodeAt(tasks, n) ==
    IF n[2] = 0 THEN tasks[n[1]] ELSE tasks[n[1]].subtasks[n[2]]

\* The task or subtask a dependency entry denotes, <<0, 0>> if none.
Resolve(tasks, dep) ==
    LET r == findTaskById(tasks, toString(dep))
    IN  IF r.found THEN <<r.ti, r.si>> ELSE <<0, 0>>

\* n depends on m.
DependsOn(tasks, n, m) ==
    LET deps == NodeAt(tasks, n).dependencies
    IN  \E k \in 1..Len(deps) : Resolve(tasks, deps[k]) = m

\* The nodes reachable from the nodes of frontier along dependencies.
RECURSIVE ReachableFrom(_, _)
ReachableFrom(tasks, seen) ==
    LET more == {m \in Nodes(tasks) : \E n \in seen : DependsOn(tasks, n, m)}
    IN  IF more \subseteq seen THEN seen
        ELSE ReachableFrom(tasks, seen \cup more)

Acyclic(tasks) ==
    \A n \in Nodes(tasks) :
        LET direct == {m \in Nodes(tasks) : DependsOn(tasks, n, m)}
        IN  n \notin ReachableFrom(tasks, direct)

\* C1: a successful set_task_status call on a list of ids has set the new
\* status, in the stored document, of every id of the list that denotes a
\* task or subtask and reports it as updated, and reports an error for
\* every id that denotes none, and for no other.
C1_PartialSuccess ==
    (resp.op = "set_task_status" /\ ~resp.isError) =>
        LET ids == SplitIds(resp.args[1])
        IN  \A k \in 1..Len(ids) :
                LET r == findTaskById(file.tasks, ids[k])
                IN  IF r.found
                    THEN /\ TaskAt(file.tasks, r).status = resp.kind
                         /\ ids[k] \in Range(resp.updated)
                         /\ ids[k] \notin Range(resp.errors)
                    ELSE /\ ids[k] \in Range(resp.errors)
                         /\ ids[k] \notin Range(resp.updated)

\* A call on a list that mixes ids of tasks and ids of no task has succeeded.
C1_Witness ==
    /\ resp.op = "set_task_status"
    /\ ~resp.isError
    /\ resp.updated # <<>>
    /\ resp.errors # <<>>

\* C2: the dependency graph stays acyclic under add_dependency: no task or
\* subtask depends on itself, directly or through other tasks.
C2_DependencyGraphAcyclic == file.exists => Acyclic(file.tasks)

\* C3: an add_dependency call whose two ids denote the same task or
\* subtask does not succeed.
C3_SelfDependencyRejected ==
    (resp.op = "add_dependency" /\ ~resp.isError) =>
        findTaskById(file.tasks, resp.args[1])
            # findTaskById(file.tasks, resp.args[2])

\* C4: no dependency list holds the same dependency twice: no two of its
\* entries are equal as values or as strings, or denote the same task or
\* subtask.
C4_NoDuplicateDependency ==
    \A n \in Nodes(file.tasks) :
        LET deps == NodeAt(file.tasks, n).dependencies
        IN  \A i, j \in 1..Len(deps) :
                i < j =>
                    /\ toString(deps[i]) # toString(deps[j])
                    /\ \/ Resolve(file.tasks, deps[i]) = <<0, 0>>
                       \/ Resolve(file.tasks, deps[i]) # Resolve(file.tasks, deps[j])

C6_SuccessUpdatesTimestamp ==
    [][(~resp'.isError /\ file.exists /\ file'.exists) =>
          \A i \in 1..Len(file'.tasks) :
              ( /\ i <= Len(file.tasks)
                /\ file.tasks[i].id = file'.tasks[i].id
                /\ file.tasks[i] # file'.tasks[i] )
              => file'.tasks[i].updatedAt = now']_vars

\* C7: after set_task_status has set a task to "done", every subtask of
\* that task is "done".
C7_DoneCascadesToSubtasks ==
    (resp.op = "set_task_status" /\ ~resp.isError /\ resp.kind = "done") =>
        \A k \in 1..Len(resp.updated) :
            LET r == findTaskById(file.tasks, resp.updated[k])
            IN  (r.found /\ ~r.isSubtask) =>
                    \A j \in 1..Len(file.tasks[r.ti].subtasks) :
                        file.tasks[r.ti].subtasks[j].status = "done"

\* C8: the status of every task and every subtask is one of the seven
\* valid statuses.
C8_StatusesValid ==
    \A n \in Nodes(file.tasks) : NodeAt(file.tasks, n).status \in validStatuses

\* C9: the subtask ids of a task are pairwise distinct, and the subtask
\* add_subtask has just added is the last of its parent with id 1 if it is
\* the only one, and otherwise the largest id of the others plus one.
C9_SubtaskIdsDistinct ==
    /\ \A i \in 1..Len(file.tasks) :
          \A j, k \in 1..Len(file.tasks[i].subtasks) :
              j < k => file.tasks[i].subtasks[j].id # file.tasks[i].subtasks[k].id
    /\ (resp.op = "add_subtask" /\ ~resp.isError) =>
          LET r == findTaskById(file.tasks, resp.updated[1])
              subs == file.tasks[r.ti].subtasks
              others == {subs[j].id : j \in 1..(Len(subs) - 1)}
          IN  /\ r.found
              /\ r.si = Len(subs)
              /\ others = {} => subs[r.si].id = 1
              /\ others # {} =>
                    /\ subs[r.si].id - 1 \in others
                    /\ \A x \in others : x < subs[r.si].id

\* add_subtask has added a subtask to a task from which a subtask with a
\* lower id was removed before: the new id is larger than the number of
\* subtasks.
C9_Witness ==
    /\ resp.op = "add_subtask"
    /\ ~resp.isError
    /\ LET r == findTaskById(file.tasks, resp.updated[1])
       IN  /\ r.found
           /\ Len(file.tasks[r.ti].subtasks) >= 2
           /\ file.tasks[r.ti].subtasks[r.si].id > Len(file.tasks[r.ti].subtasks)

\* C10: the ids of the top-level tasks are pairwise distinct, and the task
\* remove_subtask has just converted a subtask into is the last task, with
\* the largest id of the tasks before it plus one.
C10_TaskIdsDistinct ==
    /\ \A i, j \in 1..Len(file.tasks) :
          i < j => file.tasks[i].id # file.tasks[j].id
    /\ ( /\ resp.op = "remove_subtask"
         /\ ~resp.isError
         /\ resp.kind = "converted"
         /\ resp.updated # <<>> ) =>
          LET n == Len(file.tasks)
              before == {file.tasks[i].id : i \in 1..(n - 1)}
          IN  /\ before # {}
              /\ file.tasks[n].id - 1 \in before
              /\ \A x \in before : x < file.tasks[n].id

\* remove_subtask has converted a subtask into a task after a task with a
\* lower id was converted into a subtask: the new id is larger than the
\* number of tasks.
C10_Witness ==
    /\ resp.op = "remove_subtask"
    /\ ~resp.isError
    /\ resp.kind = "converted"
    /\ resp.updated # <<>>
    /\ file.tasks[Len(file.tasks)].id > Len(file.tasks)

(***************************************************************************)
(* next_task                                                               *)
(***************************************************************************)

\* new Set(tasks.filter(t => done or completed).map(t => t.id)): the ids of
\* the top-level tasks that are done or completed.
completedTaskIds(tasks) ==
    { tasks[i].id : i \in { j \in 1..Len(tasks) :
                              tasks[j].status \in {"done", "completed"} } }

\* completedTaskIds.has(depId): a Set compares without conversion, so a
\* string entry never equals the numeric id of a task.
HasCompleted(tasks, depId) ==
    depId.type = "number" /\ depId.num \in completedTaskIds(tasks)

\* The filter callback of findNextTask without its test of the dependencies.
IsEligibleIgnoringDependencies(tasks, task) ==
    IF task.status = "done" \/ task.status = "completed" THEN FALSE
    ELSE IF task.status = "blocked" \/ task.status = "deferred"
            \/ task.status = "cancelled" THEN FALSE
    ELSE TRUE

\* The filter callback of findNextTask.
IsEligible(tasks, task) ==
    IF task.status = "done" \/ task.status = "completed" THEN FALSE
    ELSE IF task.status = "blocked" \/ task.status = "deferred"
            \/ task.status = "cancelled" THEN FALSE
    ELSE IF Len(task.dependencies) > 0
    THEN \A k \in 1..Len(task.dependencies) :
            HasCompleted(tasks, task.dependencies[k])
    ELSE TRUE

eligibleTasks(tasks) ==
    SelectSeq(tasks, LAMBDA task : IsEligible(tasks, task))

\* The positions <<i, j, k>> of the dependency entries of the collection:
\* entry k of task i (j = 0) or of subtask j of task i.
DependencyEntries(tasks) ==
    UNION { { <<i, 0, k>> : k \in 1..Len(tasks[i].dependencies) } \cup
            UNION { { <<i, j, k>> :
                        k \in 1..Len(tasks[i].subtasks[j].dependencies) } :
                    j \in 1..Len(tasks[i].subtasks) } :
            i \in 1..Len(tasks) }

EntryAt(tasks, e) ==
    IF e[2] = 0 THEN tasks[e[1]].dependencies[e[3]]
    ELSE tasks[e[1]].subtasks[e[2]].dependencies[e[3]]

\* dependentCounts.get(id) || 0: the Map counts every entry of every task's
\* and every subtask's dependency list under the entry itself as key, and is
\* read with the numeric id of a task.
dependentCounts(tasks, id) ==
    Cardinality({ e \in DependencyEntries(tasks) : EntryAt(tasks, e) = Num(id) })

\* priorityOrder[p] || 2
priorityOrder(p) ==
    IF p = "high" THEN 3
    ELSE IF p = "medium" THEN 2
    ELSE IF p = "low" THEN 1
    ELSE 2

\* The comparator of findNextTask with the priorities left out.
compareTasksIgnoringPriority(tasks, a, b) ==
    IF a.status = "in-progress" /\ b.status # "in-progress" THEN 0 - 1
    ELSE IF b.status = "in-progress" /\ a.status # "in-progress" THEN 1
    ELSE IF dependentCounts(tasks, a.id) # dependentCounts(tasks, b.id)
    THEN dependentCounts(tasks, b.id) - dependentCounts(tasks, a.id)
    ELSE a.id - b.id

\* The comparator of findNextTask: negative when a comes first.
compareTasks(tasks, a, b) ==
    IF a.status = "in-progress" /\ b.status # "in-progress" THEN 0 - 1
    ELSE IF b.status = "in-progress" /\ a.status # "in-progress" THEN 1
    ELSE IF priorityOrder(a.priority) # priorityOrder(b.priority)
    THEN priorityOrder(b.priority) - priorityOrder(a.priority)
    ELSE IF dependentCounts(tasks, a.id) # dependentCounts(tasks, b.id)
    THEN dependentCounts(tasks, b.id) - dependentCounts(tasks, a.id)
    ELSE a.id - b.id

\* Array.prototype.sort with that comparator (a stable insertion sort).
RECURSIVE InsertSorted(_, _, _)
InsertSorted(tasks, sorted, t) ==
    IF sorted = <<>> THEN <<t>>
    ELSE IF compareTasks(tasks, t, Head(sorted)) < 0
    THEN <<t>> \o sorted
    ELSE <<Head(sorted)>> \o InsertSorted(tasks, Tail(sorted), t)

RECURSIVE SortTasks(_, _, _)
SortTasks(tasks, sorted, rest) ==
    IF rest = <<>> THEN sorted
    ELSE SortTasks(tasks, InsertSorted(tasks, sorted, Head(rest)), Tail(rest))

\* findNextTask: eligibleTasks[0] after the sort as <<task>>, null as <<>>.
findNextTask(tasks) ==
    LET sorted == SortTasks(tasks, <<>>, eligibleTasks(tasks))
    IN  IF sorted = <<>> THEN <<>> ELSE <<sorted[1]>>

NextTaskResponse(isError, kind, nextTask) ==
    [op |-> "next_task", isError |-> isError, kind |-> kind,
     nextTask |-> nextTask]

\* The next_task handler; the response names the returned task by its id.
next_task(f) ==
    IF ~f.exists
    THEN NextTaskResponse(TRUE, "no_tasks", <<>>)
    ELSE IF Len(f.tasks) = 0
    THEN NextTaskResponse(FALSE, "empty", <<>>)
    ELSE IF findNextTask(f.tasks) = <<>>
    THEN NextTaskResponse(FALSE, "none_available", <<>>)
    ELSE NextTaskResponse(FALSE, "found", <<findNextTask(f.tasks)[1].id>>)

(***************************************************************************)
(* status_report_to_user                                                   *)
(***************************************************************************)

\* The callback of dependencies.every in areAllDependenciesCompleted as it
\* would be if an id of no task counted as satisfied.
DependencyCompletedOrMissing(depId, allTasks) ==
    IF depId.type = "string" /\ Includes(depId.str, ".")
    THEN LET parts == Split(depId.str, ".")
             pi    == FindIndex(allTasks, parseInt(parts[1]))
             si    == FindIndex(allTasks[pi].subtasks, parseInt(parts[2]))
         IN  IF pi = 0 THEN TRUE
             ELSE IF si = 0 THEN TRUE
             ELSE allTasks[pi].subtasks[si].status \in {"completed", "done"}
    ELSE IF depId.type = "string" THEN TRUE
    ELSE LET ti == FindIndex(allTasks, depId.num)
         IN  IF ti = 0 THEN TRUE
             ELSE allTasks[ti].status \in {"completed", "done"}

\* The callback of dependencies.every in areAllDependenciesCompleted.  A
\* string with a dot is split and its parts looked up with parseInt; any
\* other entry is compared with the task ids without conversion, so a string
\* without a dot matches no task.
DependencyCompleted(depId, allTasks) ==
    IF depId.type = "string" /\ Includes(depId.str, ".")
    THEN LET parts == Split(depId.str, ".")
             pi    == FindIndex(allTasks, parseInt(parts[1]))
             si    == FindIndex(allTasks[pi].subtasks, parseInt(parts[2]))
         IN  IF pi = 0 THEN FALSE
             ELSE IF si = 0 THEN FALSE
             ELSE allTasks[pi].subtasks[si].status \in {"completed", "done"}
    ELSE IF depId.type = "string" THEN FALSE
    ELSE LET ti == FindIndex(allTasks, depId.num)
         IN  IF ti = 0 THEN FALSE
             ELSE allTasks[ti].status \in {"completed", "done"}

areAllDependenciesCompleted(dependencies, allTasks) ==
    IF Len(dependencies) = 0 THEN TRUE
    ELSE \A k \in 1..Len(dependencies) :
            DependencyCompleted(dependencies[k], allTasks)

\* The report row of a task or subtask: its id as the report prints it, its
\* dependency list and the flag computed from it.
ReportRow(taskId, item, allTasks, type) ==
    [taskId |-> taskId, status |-> item.status,
     dependencies |-> item.dependencies,
     allDepsCompleted |->
         areAllDependenciesCompleted(item.dependencies, allTasks),
     type |-> type]

SubtaskRows(task, allTasks) ==
    [j \in 1..Len(task.subtasks) |->
        ReportRow(NatToString(task.id) \o <<".">> \o
                      NatToString(task.subtasks[j].id),
                  task.subtasks[j], allTasks, "subtask")]

RECURSIVE ReportRows(_, _, _)
ReportRows(tasks, allTasks, includeSubtasks) ==
    IF tasks = <<>> THEN <<>>
    ELSE <<ReportRow(NatToString(Head(tasks).id), Head(tasks), allTasks,
                     "task")>>
         \o (IF includeSubtasks THEN SubtaskRows(Head(tasks), allTasks)
             ELSE <<>>)
         \o ReportRows(Tail(tasks), allTasks, includeSubtasks)

\* a / b rounded to the nearest integer, halves up: Math.round, and toFixed
\* on the scaled number.
RoundDiv(a, b) == (2 * a + b) \div (2 * b)

\* Math.round((completed / total) * 100) behind its guard total > 0.
completionPercentage(completed, total) ==
    IF total > 0 THEN RoundDiv(100 * completed, total) ELSE 0

\* The status_report_to_user handler without a status filter: the rows and
\* the completion percentage of its summary.
status_report_to_user(f, includeSubtasks) ==
    IF ~f.exists
    THEN [op |-> "status_report_to_user", isError |-> TRUE,
          kind |-> "no_tasks", rows |-> <<>>, completionPercentage |-> 0]
    ELSE [op |-> "status_report_to_user", isError |-> FALSE,
          kind |-> "report",
          rows |-> ReportRows(f.tasks, f.tasks, includeSubtasks),
          completionPercentage |->
              completionPercentage(
                  Cardinality({ i \in 1..Len(f.tasks) :
                      f.tasks[i].status \in {"completed", "done"} }),
                  Len(f.tasks))]

(***************************************************************************)
(* The collections the queries are run on                                  *)
(***************************************************************************)

\* Three tasks, the first with one subtask, with their statuses, priorities
\* and dependency lists drawn from the sets below.
QueryProject(s1, ss, sd, s2, p2, d2, s3, p3, d3) ==
    << Task(1, s1, "medium", <<>>, << Sub(1, 1, ss, sd) >>),
       Task(2, s2, p2, d2, <<>>),
       Task(3, s3, p3, d3, <<>>) >>

\* The dependency lists of task 2: none, a task, a subtask by its composite
\* id, an id of no task, a subtask of no task.
QueryDependencyInputs ==
    { <<>>, << Num(1) >>, << Str(<<"1", ".", "1">>) >>, << Num(9) >>,
      << Str(<<"1", ".", "9">>) >> }

QueryPriorityInputs == {"high", "low", "unset", "urgent"}

QueryFiles ==
    { [exists |-> TRUE,
       tasks  |-> QueryProject(s1, ss, sd, s2, p2, d2, s3, p3, d3)] :
        s1 \in validStatuses, ss \in {"pending", "done"},
        sd \in { <<>>, << Num(3) >> },
        s2 \in {"pending", "in-progress", "done"},
        p2 \in QueryPriorityInputs, d2 \in QueryDependencyInputs,
        s3 \in {"pending", "in-progress"}, p3 \in {"high", "unset"},
        d3 \in { <<>>, << Num(1) >> } }
    \cup { [exists |-> TRUE, tasks |-> <<>>],
           [exists |-> FALSE, tasks |-> <<>>] }

InitQuery ==
    /\ file \in QueryFiles
    /\ resp = Response("none", <<>>, FALSE, "none", <<>>, <<>>)
    /\ now = 0
    /\ callers = <<>>
    /\ stack = <<>>

\* A query reads the document and writes nothing.
NextTask ==
    /\ resp' = next_task(file)
    /\ UNCHANGED <<file, now, callers, stack>>

StatusReport ==
    /\ \E includeSubtasks \in BOOLEAN :
          resp' = status_report_to_user(file, includeSubtasks)
    /\ UNCHANGED <<file, now, callers, stack>>

NextQuery ==
    \/ NextTask
    \/ StatusReport

SpecQuery == InitQuery /\ [][NextQuery]_vars

(***************************************************************************)
(* Calls of set_task_status from two server processes                      *)
(*                                                                         *)
(* A handler has no await between readJSON and writeJSON, so the calls of  *)
(* one server run one after the other.  Two servers started on the same    *)
(* project are two processes: the read of one and the write of the other   *)
(* are separate file system calls that interleave freely.                  *)
(***************************************************************************)

Callers == {"first", "second"}

\* The taskIds and statuses the two callers pass.
ConcurrentIdInputs == { <<"1">>, <<"2">>, <<"1", ".", "1">>, <<"9">> }
ConcurrentStatusInputs == {"done", "in-progress"}

\* A caller before its call: nothing loaded.
Idle ==
    [pc |-> "idle", taskIds |-> <<>>, status |-> "", data |-> <<>>,
     loadedAt |-> 0, wroteAt |-> 0, resp |-> <<>>]

InitConcurrent ==
    /\ file \in { [exists |-> TRUE, tasks |-> ProjectA],
                  [exists |-> TRUE, tasks |-> ProjectB] }
    /\ resp = Response("none", <<>>, FALSE, "none", <<>>, <<>>)
    /\ now = 0
    /\ callers = [c \in Callers |-> Idle]
    /\ stack = <<>>

\* The call as it would run if the handler read the document again when it
\* writes, holding a lock on it.
RunOnCurrentFile(c) ==
    set_task_status(file, callers[c].taskIds, callers[c].status, TRUE)

\* The rest of the handler after readJSON: the loop changes the loaded
\* document in memory, and that document is what writeJSON stores.
RunOnLoaded(c) ==
    set_task_status(callers[c].data, callers[c].taskIds, callers[c].status,
                    TRUE)

\* const data = readJSON(tasksPath)
Load(c) ==
    /\ callers[c].pc = "idle"
    /\ \E taskIds \in ConcurrentIdInputs, status \in ConcurrentStatusInputs :
          callers' = [callers EXCEPT ![c] =
                         [Idle EXCEPT !.pc = "loaded", !.taskIds = taskIds,
                                      !.status = status, !.data = file,
                                      !.loadedAt = now + 1]]
    /\ now' = now + 1
    /\ UNCHANGED <<file, resp, stack>>

\* if (updatedTasks.length > 0) writeJSON(tasksPath, data), and the response.
Write(c) ==
    /\ callers[c].pc = "loaded"
    /\ LET r     == RunOnLoaded(c)
           wrote == ~r.resp.isError /\ r.resp.updated # <<>>
       IN  /\ file' = IF wrote THEN r.file ELSE file
           /\ resp' = r.resp
           /\ callers' = [callers EXCEPT ![c].pc = "done",
                                         ![c].resp = r.resp,
                                         ![c].wroteAt =
                                             IF wrote THEN now + 1 ELSE 0]
    /\ now' = now + 1
    /\ UNCHANGED stack

NextConcurrent ==
    \/ \E c \in Callers : Load(c)
    \/ \E c \in Callers : Write(c)

SpecConcurrent == InitConcurrent /\ [][NextConcurrent]_vars

(***************************************************************************)
(* The update tools: update_task_by_id, update_tasks,                      *)
(* update_tasks_by_flows and analyze_task_complexity.  They read the       *)
(* document and return instructions; they write nothing.                   *)
(*                                                                         *)
(* A task of the collections they are run on carries its relevantTasks     *)
(* (numeric ids) and chars, the length of JSON.stringify(task).            *)
(***************************************************************************)

UpdateTask(id, status, deps, relevantTasks, chars) ==
    [id |-> id, status |-> status, priority |-> "medium",
     dependencies |-> deps, subtasks |-> <<>>, parentTaskId |-> 0,
     updatedAt |-> 0, relevantTasks |-> relevantTasks, chars |-> chars]

\* buildRelevantTasksChain.  The ids of the result are the values the Set
\* holds: numbers, and the strings among the dependency entries.  visited
\* grows by the start id only; every nested call gets a copy.
RECURSIVE buildRelevantTasksChain(_, _, _, _)
buildRelevantTasksChain(allTasks, startTaskId, visited, maxDepth) ==
    IF Num(startTaskId) \in visited \/ maxDepth <= 0 THEN {}
    ELSE
        LET visited1  == visited \cup {Num(startTaskId)}
            si        == FindIndex(allTasks, startTaskId)
            startTask == allTasks[si]
            related   == { Num(startTask.relevantTasks[k]) :
                             k \in 1..Len(startTask.relevantTasks) } \ visited1
            nested    == UNION { buildRelevantTasksChain(allTasks, r.num,
                                                         visited1, maxDepth - 1) :
                                 r \in related }
            deps      == { startTask.dependencies[k] :
                             k \in 1..Len(startTask.dependencies) } \ visited1
            dependents ==
                { Num(allTasks[i].id) :
                    i \in { j \in 1..Len(allTasks) :
                              \E k \in 1..Len(allTasks[j].dependencies) :
                                 allTasks[j].dependencies[k] = Num(startTaskId) } }
                \ visited1
        IN  IF si = 0 THEN {Num(startTaskId)}
            ELSE {Num(startTaskId)} \cup related \cup nested \cup deps
                 \cup dependents

\* buildFieldBasedTasksChain: matched are the ids of the tasks whose terms
\* score at least minScore against the search terms; with maxDepth > 0 the
\* relevantTasks of each of them are added, one level deep.
buildFieldBasedTasksChain(allTasks, matched, maxDepth) ==
    { Num(id) : id \in matched } \cup
    (IF maxDepth > 0
     THEN UNION { { Num(allTasks[i].relevantTasks[k]) :
                      k \in 1..Len(allTasks[i].relevantTasks) } :
                  i \in { j \in 1..Len(allTasks) : allTasks[j].id \in matched } }
     ELSE {})

\* The filter of update_tasks and update_tasks_by_flows without its test of
\* the status.
tasksToUpdateAnyStatus(tasks, targetTaskIds) ==
    SelectSeq(tasks, LAMBDA task : Num(task.id) \in targetTaskIds)

\* tasks.filter(task => targetTaskIds.has(task.id) && task.status !== 'done'
\* && task.status !== 'completed')
tasksToUpdate(tasks, targetTaskIds) ==
    SelectSeq(tasks, LAMBDA task :
        /\ Num(task.id) \in targetTaskIds
        /\ task.status # "done"
        /\ task.status # "completed")

(***************************************************************************)
(* Batch planning                                                          *)
(***************************************************************************)

RECURSIVE SumChars(_)
SumChars(tasks) ==
    IF tasks = <<>> THEN 0 ELSE Head(tasks).chars + SumChars(Tail(tasks))

\* JSON.stringify(tasks).length: the brackets, the tasks and the commas
\* between them.
StringifyLength(tasks) ==
    IF tasks = <<>> THEN 2 ELSE 2 + SumChars(tasks) + (Len(tasks) - 1)

Min(a, b) == IF a < b THEN a ELSE b
Max(a, b) == IF a > b THEN a ELSE b

\* Math.ceil(a / b) for b > 0
Ceil(a, b) == (a + b - 1) \div b

\* A batch size argument that JavaScript treats as true: present, not 0.
Truthy(n) == n # Undefined /\ n # 0

\* determineBatchStrategy.  The numbers are exact: estimatedTokens
\* = (length / 4) * 1.5 is kept as estimatedTokens8 = 8 * estimatedTokens
\* = 3 * length, and floor(10000 / (avgTaskSize / 4)) with avgTaskSize
\* = length / totalTasks is floor(40000 * totalTasks / length).
determineBatchStrategy(tasks) ==
    LET totalTasks == Len(tasks)
        length     == StringifyLength(tasks)
        batchSize  == Max(1, (40000 * totalTasks) \div length)
    IN  IF totalTasks = 0
        THEN [useBatches |-> FALSE, batchSize |-> 0, totalBatches |-> 0,
              estimatedTokens8 |-> 0]
        ELSE IF 3 * length > 15000 * 8
        THEN [useBatches |-> TRUE,
              batchSize |-> Min(batchSize, 5),
              totalBatches |-> Ceil(totalTasks, batchSize),
              estimatedTokens8 |-> 3 * length]
        ELSE [useBatches |-> FALSE, batchSize |-> totalTasks,
              totalBatches |-> 1, estimatedTokens8 |-> 3 * length]

\* if (batchSize) { ... } of update_tasks and update_tasks_by_flows as it
\* would be if the computed plan were kept.
OverrideBatchSizeIgnored(batchConfig, batchSize, count) == batchConfig

\* if (batchSize) { batchConfig.batchSize = Math.min(batchSize, count); ... }
\* of update_tasks and update_tasks_by_flows.
OverrideBatchSize(batchConfig, batchSize, count) ==
    IF Truthy(batchSize)
    THEN [batchConfig EXCEPT !.batchSize = Min(batchSize, count),
                             !.useBatches = batchSize < count,
                             !.totalBatches = Ceil(count, batchSize)]
    ELSE batchConfig

\* calculateBatchConfig of analyze_task_complexity: estimatedTokens
\* = (length / 4) * 2, kept as estimatedTokens8 = 4 * length.
calculateBatchConfig(tasks, requestedBatchSize) ==
    LET totalTasks == Len(tasks)
        length     == StringifyLength(tasks)
        batchSize  ==
            IF Truthy(requestedBatchSize)
            THEN Min(requestedBatchSize, totalTasks)
            ELSE IF 4 * length > 20000 * 8
            THEN Min(Max(1, (60000 * totalTasks) \div length), 10)
            ELSE totalTasks
    IN  [useBatches |-> Ceil(totalTasks, batchSize) > 1,
         batchSize |-> batchSize,
         totalBatches |-> Ceil(totalTasks, batchSize),
         estimatedTokens8 |-> 4 * length]

(***************************************************************************)
(* The handlers                                                            *)
(***************************************************************************)

\* generateBatchBreakdown (written out in update_tasks and
\* analyze_task_complexity): batch i + 1 is tasksToUpdate.slice(start, end)
\* with start = i * batchSize and end = min(start + batchSize, length); the
\* tasks are named by their ids.
generateBatchBreakdown(ids, batchConfig) ==
    [n \in 1..batchConfig.totalBatches |->
        LET start == (n - 1) * batchConfig.batchSize
            end   == Min(start + batchConfig.batchSize, Len(ids))
        IN  IF start >= end THEN <<>> ELSE SubSeq(ids, start + 1, end)]

\* The response of an update tool: the arguments it was called with, the ids
\* of the tasks the instructions are about, the batch plan and, for a
\* batched plan, the batch breakdown of the instructions.
UpdateResponse(op, isError, kind, args, ids, batchConfig) ==
    [op |-> op, isError |-> isError, kind |-> kind, args |-> args,
     tasksToUpdate |-> ids, batchConfig |-> batchConfig,
     batchBreakdown |-> IF batchConfig.useBatches
                        THEN generateBatchBreakdown(ids, batchConfig)
                        ELSE <<>>]

NoPlan ==
    [useBatches |-> FALSE, batchSize |-> 0, totalBatches |-> 0,
     estimatedTokens8 |-> 0]

IdsOf(tasks) == [k \in 1..Len(tasks) |-> tasks[k].id]

update_task_by_id(f, taskId) ==
    LET Resp(isError, kind) ==
            UpdateResponse("update_task_by_id", isError, kind,
                           [taskId |-> taskId], <<>>, NoPlan)
        ti == FindIndex(f.tasks, taskId)
    IN  IF ~f.exists THEN Resp(TRUE, "no_tasks")
        ELSE IF ti = 0 THEN Resp(TRUE, "not_found")
        ELSE IF f.tasks[ti].status = "done" \/ f.tasks[ti].status = "completed"
        THEN Resp(TRUE, "locked")
        ELSE Resp(FALSE, "instructions")

update_tasks(f, fromId, taskIds, maxDepth, batchSize) ==
    LET args == [fromId |-> fromId, taskIds |-> taskIds,
                 maxDepth |-> maxDepth, batchSize |-> batchSize]
        Err(kind) == UpdateResponse("update_tasks", TRUE, kind, args, <<>>,
                                    NoPlan)
        targetTaskIds ==
            IF Len(taskIds) > 0
            THEN { Num(taskIds[k]) : k \in 1..Len(taskIds) }
            ELSE buildRelevantTasksChain(f.tasks, fromId, {}, maxDepth)
        selected == tasksToUpdate(f.tasks, targetTaskIds)
        batchConfig == OverrideBatchSize(determineBatchStrategy(selected),
                                         batchSize, Len(selected))
    IN  IF ~f.exists THEN Err("no_tasks")
        ELSE IF Len(taskIds) = 0 /\ ~Truthy(fromId) THEN Err("no_target")
        ELSE IF Len(selected) = 0 THEN Err("no_updatable")
        ELSE UpdateResponse("update_tasks", FALSE, "instructions", args,
                            IdsOf(selected), batchConfig)

update_tasks_by_flows(f, matched, maxDepth, batchSize) ==
    LET args == [matched |-> matched, maxDepth |-> maxDepth,
                 batchSize |-> batchSize]
        Err(kind) == UpdateResponse("update_tasks_by_flows", TRUE, kind, args,
                                    <<>>, NoPlan)
        targetTaskIds == buildFieldBasedTasksChain(f.tasks, matched, maxDepth)
        selected == tasksToUpdate(f.tasks, targetTaskIds)
        batchConfig == OverrideBatchSize(determineBatchStrategy(selected),
                                         batchSize, Len(selected))
    IN  IF ~f.exists THEN Err("no_tasks")
        ELSE IF targetTaskIds = {} THEN Err("no_match")
        ELSE IF Len(selected) = 0 THEN Err("no_updatable")
        ELSE UpdateResponse("update_tasks_by_flows", FALSE, "instructions",
                            args, IdsOf(selected), batchConfig)

\* analyze_task_complexity without an id or range filter.
analyze_task_complexity(f, batchSize) ==
    LET args == [batchSize |-> batchSize]
        Err(kind) == UpdateResponse("analyze_task_complexity", TRUE, kind,
                                    args, <<>>, NoPlan)
        filteredTasks ==
            SelectSeq(f.tasks, LAMBDA task :
                task.status \in {"pending", "blocked", "in-progress"})
    IN  IF ~f.exists \/ Len(f.tasks) = 0 THEN Err("no_tasks")
        ELSE IF Len(filteredTasks) = 0 THEN Err("no_match")
        ELSE UpdateResponse("analyze_task_complexity", FALSE, "instructions",
                            args, IdsOf(filteredTasks),
                            calculateBatchConfig(filteredTasks, batchSize))

(***************************************************************************)
(* The collections and arguments of the update tools                       *)
(***************************************************************************)

\* Four tasks: 1 and 2 name each other as relevant, 2 leads on to 3 and 3
\* to 4; 2 depends on 1 and 4 on 3; 4 is done.
UpdateProject(s1, s2, chars) ==
    << UpdateTask(1, s1, <<>>, <<2>>, chars),
       UpdateTask(2, s2, << Num(1) >>, <<3, 1>>, chars),
       UpdateTask(3, "pending", <<>>, <<4>>, chars),
       UpdateTask(4, "done", << Num(3) >>, <<>>, chars) >>

\* The serialized sizes of a task: small tasks, and tasks large enough for
\* three of them to exceed the token ceiling.
UpdateCharsInputs == {200, 15000}

UpdateFiles ==
    { [exists |-> TRUE, tasks |-> UpdateProject(s1, s2, chars)] :
        s1 \in {"pending", "done"},
        s2 \in {"pending", "in-progress", "completed"},
        chars \in UpdateCharsInputs }
    \cup { [exists |-> TRUE, tasks |-> <<>>],
           [exists |-> FALSE, tasks |-> <<>>] }

\* The arguments of update_tasks: a start id with a depth, a list of ids
\* (with the default depth), both, or neither.
MaxDepthInputs == {0, 1, 2}
UpdateTasksInputs ==
    { [fromId |-> fromId, taskIds |-> <<>>, maxDepth |-> maxDepth] :
        fromId \in {1, 3, 9}, maxDepth \in MaxDepthInputs }
    \cup { [fromId |-> Undefined, taskIds |-> taskIds, maxDepth |-> 2] :
             taskIds \in { <<>>, <<1, 2>>, <<4>> } }
    \cup { [fromId |-> 1, taskIds |-> <<4>>, maxDepth |-> 2] }

\* The batchSize argument: absent, 0, and sizes below and above the number
\* of tasks.
BatchSizeInputs == {Undefined, 0, 2, 7}

\* The sets of tasks whose flow names match the search of
\* update_tasks_by_flows.
MatchedInputs == { {}, {1}, {2, 4} }

UpdateTaskIdInputs == {1, 4, 9}
ChangeStatusIdInputs == { <<"1">>, <<"4">> }

InitUpdate ==
    /\ file \in UpdateFiles
    /\ resp = Response("none", <<>>, FALSE, "none", <<>>, <<>>)
    /\ now = 0
    /\ callers = <<>>
    /\ stack = <<>>

UpdateTaskById ==
    /\ \E taskId \in UpdateTaskIdInputs :
          resp' = update_task_by_id(file, taskId)
    /\ UNCHANGED <<file, now, callers, stack>>

UpdateTasks ==
    /\ \E a \in UpdateTasksInputs, batchSize \in BatchSizeInputs :
          resp' = update_tasks(file, a.fromId, a.taskIds, a.maxDepth, batchSize)
    /\ UNCHANGED <<file, now, callers, stack>>

UpdateTasksByFlows ==
    /\ \E matched \in MatchedInputs, maxDepth \in {0, 2},
          batchSize \in BatchSizeInputs :
          resp' = update_tasks_by_flows(file, matched, maxDepth, batchSize)
    /\ UNCHANGED <<file, now, callers, stack>>

AnalyzeTaskComplexity ==
    /\ \E batchSize \in BatchSizeInputs :
          resp' = analyze_task_complexity(file, batchSize)
    /\ UNCHANGED <<file, now, callers, stack>>

\* set_task_status on a task of the collection, to reopen or to finish it.
ChangeStatus ==
    /\ now < MaxCalls
    /\ \E taskIds \in ChangeStatusIdInputs, status \in {"pending", "done"} :
          LET r == set_task_status(file, taskIds, status, TRUE)
          IN  /\ file' = r.file
              /\ resp' = r.resp
    /\ now' = now + 1
    /\ UNCHANGED <<callers, stack>>

NextUpdate ==
    \/ UpdateTaskById
    \/ UpdateTasks
    \/ UpdateTasksByFlows
    \/ AnalyzeTaskComplexity
    \/ ChangeStatus

SpecUpdate == InitUpdate /\ [][NextUpdate]_vars

(***************************************************************************)
(* buildRelevantTasksChain, call by call                                   *)
(*                                                                         *)
(* The recursion is run on a stack of frames.  A frame holds the arguments *)
(* of its call (startTaskId, visited, maxDepth), the Set it builds         *)
(* (relevantIds), where it stands (pc) and the index k of the entry of     *)
(* startTask.relevantTasks its forEach is at.  JavaScript runs the         *)
(* function to its end without interruption, so a step of a running call   *)
(* is always taken.                                                        *)
(***************************************************************************)

\* The largest maxDepth a chain is built with.
MaxChainDepth == 3

\* The deepest stack the steps build: one frame more than any call needs,
\* since a call at depth 0 returns on entry.
MaxStack == MaxChainDepth + 2

Frame(startTaskId, visited, maxDepth) ==
    [startTaskId |-> startTaskId, visited |-> visited, maxDepth |-> maxDepth,
     pc |-> "enter", k |-> 1, relevantIds |-> {}]

Top == stack[Len(stack)]

ChainResponse(kind, startTaskId, maxDepth, relevantIds) ==
    [op |-> "buildRelevantTasksChain", isError |-> FALSE, kind |-> kind,
     startTaskId |-> startTaskId, maxDepth |-> maxDepth,
     relevantIds |-> relevantIds]

\* The test on entry as it would be without cycle detection and without
\* the depth budget.
ChainStopsNever(visited, startTaskId, maxDepth) == FALSE

\* if (visited.has(startTaskId) || maxDepth <= 0) return new Set()
ChainStops(visited, startTaskId, maxDepth) ==
    Num(startTaskId) \in visited \/ maxDepth <= 0

\* return: the frame is popped; the caller adds the ids to its own Set and
\* its forEach moves on; the outermost call hands the ids to the handler.
ChainReturnTo(result) ==
    IF Len(stack) = 1
    THEN /\ stack' = <<>>
         /\ resp' = ChainResponse("returned", resp.startTaskId, resp.maxDepth,
                                  result)
    ELSE /\ stack' =
             [SubSeq(stack, 1, Len(stack) - 1) EXCEPT
                 ![Len(stack) - 1].relevantIds = @ \cup result,
                 ![Len(stack) - 1].k = @ + 1]
         /\ UNCHANGED resp

\* buildRelevantTasksChain(tasksData.tasks, fromId, new Set(), maxDepth) of
\* update_tasks.
ChainStart ==
    /\ stack = <<>>
    /\ resp.op = "none"
    /\ file.exists
    /\ \E startTaskId \in {1, 2, 9}, maxDepth \in 0..MaxChainDepth :
          /\ stack' = << Frame(startTaskId, {}, maxDepth) >>
          /\ resp' = ChainResponse("running", startTaskId, maxDepth, {})
    /\ UNCHANGED <<file, now, callers>>

\* The entry of a call: the test of visited and maxDepth, visited.add, the
\* new Set([startTaskId]) and the lookup of startTask.
ChainEnter ==
    /\ stack # <<>>
    /\ Top.pc = "enter"
    /\ IF ChainStops(Top.visited, Top.startTaskId, Top.maxDepth)
       THEN ChainReturnTo({})
       ELSE IF FindIndex(file.tasks, Top.startTaskId) = 0
       THEN ChainReturnTo({Num(Top.startTaskId)})
       ELSE /\ stack' = [stack EXCEPT
                   ![Len(stack)].pc = "loop",
                   ![Len(stack)].visited = @ \cup {Num(Top.startTaskId)},
                   ![Len(stack)].relevantIds = {Num(Top.startTaskId)}]
            /\ UNCHANGED resp
    /\ UNCHANGED <<file, now, callers>>

\* One turn of startTask.relevantTasks.forEach: an id that is not visited
\* is added and a nested call is made with a copy of visited.
ChainVisit ==
    /\ stack # <<>>
    /\ Top.pc = "loop"
    /\ Len(stack) < MaxStack
    /\ LET startTask == file.tasks[FindIndex(file.tasks, Top.startTaskId)]
       IN  /\ Top.k <= Len(startTask.relevantTasks)
           /\ LET id == startTask.relevantTasks[Top.k]
              IN  IF Num(id) \notin Top.visited
                  THEN stack' =
                         [stack EXCEPT ![Len(stack)].relevantIds =
                                           @ \cup {Num(id)}]
                         \o << Frame(id, Top.visited, Top.maxDepth - 1) >>
                  ELSE stack' = [stack EXCEPT ![Len(stack)].k = @ + 1]
    /\ UNCHANGED <<file, resp, now, callers>>

\* After the forEach: the dependencies and the dependents that are not
\* visited are added and the Set is returned.
ChainFinish ==
    /\ stack # <<>>
    /\ Top.pc = "loop"
    /\ LET startTask == file.tasks[FindIndex(file.tasks, Top.startTaskId)]
           deps == { startTask.dependencies[k] :
                       k \in 1..Len(startTask.dependencies) } \ Top.visited
           dependents ==
               { Num(file.tasks[i].id) :
                   i \in { j \in 1..Len(file.tasks) :
                             \E k \in 1..Len(file.tasks[j].dependencies) :
                                file.tasks[j].dependencies[k]
                                    = Num(Top.startTaskId) } }
               \ Top.visited
       IN  /\ Top.k > Len(startTask.relevantTasks)
           /\ ChainReturnTo(Top.relevantIds \cup deps \cup dependents)
    /\ UNCHANGED <<file, now, callers>>

\* Three tasks whose relevantTasks and dependencies form cycles, self
\* references and references to no task.
ChainFiles ==
    { [exists |-> TRUE,
       tasks  |-> << UpdateTask(1, "pending", d1, r1, 200),
                     UpdateTask(2, "pending", d2, r2, 200),
                     UpdateTask(3, "pending", <<>>, r3, 200) >>] :
        r1 \in { <<>>, <<2>>, <<2, 3>>, <<1>> },
        d1 \in { <<>>, << Num(2) >> },
        r2 \in { <<>>, <<1>>, <<3, 1>> },
        d2 \in { <<>>, << Num(1) >> },
        r3 \in { <<>>, <<1>>, <<2>>, <<9>> } }

InitChain ==
    /\ file \in ChainFiles
    /\ resp = Response("none", <<>>, FALSE, "none", <<>>, <<>>)
    /\ now = 0
    /\ callers = <<>>
    /\ stack = <<>>

ChainStep ==
    \/ ChainEnter
    \/ ChainVisit
    \/ ChainFinish

NextChain ==
    \/ ChainStart
    \/ ChainStep

SpecChain == InitChain /\ [][NextChain]_vars /\ WF_vars(ChainStep)

(***************************************************************************)
(* Batch plans of task sets of every size                                  *)
(***************************************************************************)

\* Bound of the model: the number of tasks of a collection to plan.
MaxPlanTasks == 12

\* The serialized sizes of the tasks of such a collection.
PlanCharsInputs == {500, 4000, 9000, 45000}

\* count pending tasks of the given size, without links between them.
PlanProject(count, chars) ==
    [id \in 1..count |-> UpdateTask(id, "pending", <<>>, <<>>, chars)]

PlanFiles ==
    { [exists |-> TRUE, tasks |-> PlanProject(count, chars)] :
        count \in 1..MaxPlanTasks, chars \in PlanCharsInputs }

InitPlan ==
    /\ file \in PlanFiles
    /\ resp = Response("none", <<>>, FALSE, "none", <<>>, <<>>)
    /\ now = 0
    /\ callers = <<>>
    /\ stack = <<>>

\* update_tasks for all the tasks of the collection, named by their ids.
PlanUpdateBatches ==
    /\ \E batchSize \in BatchSizeInputs :
          resp' = update_tasks(file, Undefined, IdsOf(file.tasks), 2, batchSize)
    /\ UNCHANGED <<file, now, callers, stack>>

NextPlan ==
    \/ PlanUpdateBatches
    \/ AnalyzeTaskComplexity

SpecPlan == InitPlan /\ [][NextPlan]_vars

(***************************************************************************)
(* show_task                                                               *)
(***************************************************************************)

\* dependencies.includes(value): the entries are compared without
\* conversion.
DependenciesInclude(dependencies, value) ==
    \E k \in 1..Len(dependencies) : dependencies[k] = value

RECURSIVE Flatten(_)
Flatten(seqs) ==
    IF seqs = <<>> THEN <<>> ELSE Head(seqs) \o Flatten(Tail(seqs))

\* The dependentTasks of show_task, by their ids: the number of a task, the
\* composite string of a subtask.  A task is listed when its dependencies
\* include parseInt(taskId, 10); a subtask when its dependencies include
\* that number or currentTaskId.
dependentTasks(tasks, taskId, currentTaskId) ==
    Flatten([i \in 1..Len(tasks) |->
        (IF DependenciesInclude(tasks[i].dependencies, Num(parseInt(taskId)))
         THEN << Num(tasks[i].id) >> ELSE <<>>)
        \o Flatten([j \in 1..Len(tasks[i].subtasks) |->
              IF \/ DependenciesInclude(tasks[i].subtasks[j].dependencies,
                                        Num(parseInt(taskId)))
                 \/ DependenciesInclude(tasks[i].subtasks[j].dependencies,
                                        currentTaskId)
              THEN << Str(CompositeId(tasks[i].id, tasks[i].subtasks[j].id)) >>
              ELSE <<>>])])

\* The show_task handler: the id of the shown task or subtask and its
\* dependents.
show_task(f, taskId) ==
    LET result == findTaskById(f.tasks, taskId)
        Resp(isError, kind, id, dependents) ==
            [op |-> "show_task", isError |-> isError, kind |-> kind,
             taskId |-> taskId, id |-> id, dependentTasks |-> dependents]
    IN  IF ~f.exists THEN Resp(TRUE, "no_tasks", <<>>, <<>>)
        ELSE IF ~result.found THEN Resp(TRUE, "not_found", <<>>, <<>>)
        ELSE
            LET currentTaskId ==
                    IF result.isSubtask
                    THEN Str(CompositeId(f.tasks[result.ti].id,
                                         TaskAt(f.tasks, result).id))
                    ELSE Num(TaskAt(f.tasks, result).id)
            IN  Resp(FALSE, "shown", <<currentTaskId>>,
                     dependentTasks(f.tasks, taskId, currentTaskId))

\* The ids show_task is called with: tasks, a subtask, no task.
ShowTaskIdInputs ==
    { <<"1">>, <<"2">>, <<"3">>, <<"1", ".", "1">>, <<"9">> }

ShowTask ==
    /\ \E taskId \in ShowTaskIdInputs : resp' = show_task(file, taskId)
    /\ UNCHANGED <<file, now, callers, stack>>

NextShow == ShowTask

SpecShow == InitQuery /\ [][NextShow]_vars

(***************************************************************************)
(* The analytics: list_tasks, list_flows, list_keywords                    *)
(*                                                                         *)
(* A percentage with one decimal is kept in tenths (name ending in 10), an *)
(* average with two decimals in hundredths (name ending in 100).  A field  *)
(* of a task that may be missing is <<>> when missing and <<value>> when   *)
(* present.                                                                *)
(***************************************************************************)

IsCompletedStatus(status) == status = "done" \/ status = "completed"

\* seq.filter(t => t.status === 'done' || t.status === 'completed').length
CountCompleted(seq) ==
    Cardinality({ k \in 1..Len(seq) : IsCompletedStatus(seq[k].status) })

AnalyticsSub(id, status, flowNames, keywords) ==
    [id |-> id, status |-> status, dependencies |-> <<>>,
     flowNames |-> flowNames, keywords |-> keywords]

AnalyticsTask(id, status, flowNames, keywords, subs) ==
    [id |-> id, status |-> status, priority |-> "medium",
     dependencies |-> <<>>, subtasks |-> subs,
     flowNames |-> flowNames, keywords |-> keywords]

\* The sum of a sequence of numbers.
RECURSIVE SumSeq(_)
SumSeq(seq) == IF seq = <<>> THEN 0 ELSE Head(seq) + SumSeq(Tail(seq))

\* The list_tasks handler without a status filter: the statistics of its
\* response.  subtaskStats is null (<<>>) unless withSubtasks.
list_tasks(f, withSubtasks) ==
    IF ~f.exists
    THEN [op |-> "list_tasks", isError |-> TRUE, kind |-> "no_tasks"]
    ELSE
        LET totalTasks     == Len(f.tasks)
            completedTasks ==
                CountCompleted(f.tasks)
            totalSubtasks  ==
                SumSeq([i \in 1..Len(f.tasks) |-> Len(f.tasks[i].subtasks)])
            completedSubtasks ==
                SumSeq([i \in 1..Len(f.tasks) |->
                           CountCompleted(f.tasks[i].subtasks)])
        IN  [op |-> "list_tasks", isError |-> FALSE, kind |-> "list",
             totalTasks |-> totalTasks,
             completedTasks |-> completedTasks,
             completionPercentage |->
                 completionPercentage(completedTasks, totalTasks),
             subtaskStats |->
                 IF withSubtasks
                 THEN << [total |-> totalSubtasks,
                          completed |-> completedSubtasks,
                          completionPercentage |->
                              completionPercentage(completedSubtasks,
                                                   totalSubtasks)] >>
                 ELSE <<>>]

\* The keys of taskFlowMap / taskKeywordMap as positions: <<i, 0>> for the
\* task at i (key task.id), <<i, j>> for its subtask at j (key
\* `${task.id}.${subtask.id}`).  field is "flowNames" or "keywords"; a key
\* is set when the field is an array, an empty one included.
TermMapKeys(allTasks, includeSubtasks, field) ==
    { <<i, 0>> : i \in { n \in 1..Len(allTasks) : allTasks[n][field] # <<>> } }
    \cup
    (IF includeSubtasks
     THEN UNION { { <<i, j>> :
                      j \in { n \in 1..Len(allTasks[i].subtasks) :
                                allTasks[i].subtasks[n][field] # <<>> } } :
                  i \in 1..Len(allTasks) }
     ELSE {})

\* The item a key stands for, and the terms stored under the key.
TermMapItem(allTasks, key) ==
    IF key[2] = 0 THEN allTasks[key[1]]
    ELSE allTasks[key[1]].subtasks[key[2]]

TermsAt(allTasks, key, field) == TermMapItem(allTasks, key)[field][1]

\* The uses of the terms: <<key, k>> is entry k of the terms under key.
TermUses(allTasks, includeSubtasks, field) ==
    UNION { { <<key, k>> : k \in 1..Len(TermsAt(allTasks, key, field)) } :
            key \in TermMapKeys(allTasks, includeSubtasks, field) }

\* Object.keys(flowCounts) / Object.keys(keywordCounts)
AllTerms(allTasks, includeSubtasks, field) ==
    { TermsAt(allTasks, u[1], field)[u[2]] :
        u \in TermUses(allTasks, includeSubtasks, field) }

\* flowTasks[flow] / keywordTasks[keyword] as the set of their uses;
\* flowCounts[flow] is its size.
TermTasks(allTasks, includeSubtasks, field, term) ==
    { u \in TermUses(allTasks, includeSubtasks, field) :
        TermsAt(allTasks, u[1], field)[u[2]] = term }

\* averageFlowsPerTask / averageKeywordsPerTask of the analysis behind its
\* guard, after toFixed(2) of the summary.
averageTermsPerTask100(allTasks, includeSubtasks, field) ==
    LET keys == TermMapKeys(allTasks, includeSubtasks, field)
    IN  IF Cardinality(keys) > 0
        THEN RoundDiv(100 * Cardinality(TermUses(allTasks, includeSubtasks,
                                                 field)),
                      Cardinality(keys))
        ELSE 0

\* tasksWithoutFlows: allTasks.length minus the keys without a dot.
tasksWithoutTerms(allTasks, includeSubtasks, field) ==
    Len(allTasks)
    - Cardinality({ key \in TermMapKeys(allTasks, includeSubtasks, field) :
                      key[2] = 0 })

\* parseFloat(((tasksWith / tasksData.tasks.length) * 100).toFixed(1)):
\* 0 / 0 is NaN, (NaN).toFixed(1) is "NaN" and parseFloat gives NaN back,
\* which the response serializes as null.  tasksWith is 0 when there is no
\* task.
coveragePercentage10(tasksWith, totalTasks) ==
    IF totalTasks = 0 THEN NaN
    ELSE RoundDiv(1000 * tasksWith, totalTasks)

\* flowCompletionStatus[flow] of analyzeFlows.
flowCompletionStatus(allTasks, includeSubtasks, flow) ==
    LET tasks == TermTasks(allTasks, includeSubtasks, "flowNames", flow)
        completedTasks ==
            Cardinality({ u \in tasks :
                IsCompletedStatus(TermMapItem(allTasks, u[1]).status) })
        totalTasks == Cardinality(tasks)
    IN  [completed |-> completedTasks,
         total |-> totalTasks,
         percentage10 |-> IF totalTasks > 0
                          THEN RoundDiv(1000 * completedTasks, totalTasks)
                          ELSE 0,
         status |-> IF completedTasks = totalTasks THEN "completed"
                    ELSE IF completedTasks = 0 THEN "not-started"
                    ELSE "in-progress"]

\* The sum of the second components of a set of pairs.
RECURSIVE SumPairs(_)
SumPairs(S) ==
    IF S = {} THEN 0
    ELSE LET x == CHOOSE y \in S : TRUE
         IN  x[2] + SumPairs(S \ {x})

\* The sums (in tenths) of two of the percentages 0, 25, 33.3, 50, 66.7, 75,
\* 100 whose half is a double just below the tie, so that toFixed(1) rounds
\* it down: (0 + 33.3) / 2 is 16.65 and prints as "16.6".
HalvesRoundedDown == {333, 583, 833, 1083, 1417, 1667}

\* averageCompletion: the mean of the flows' percentages with one decimal;
\* without a flow the quotient is NaN and `|| 0` makes it 0.
averageCompletion10(allTasks, includeSubtasks) ==
    LET flows == AllTerms(allTasks, includeSubtasks, "flowNames")
        sum10 == SumPairs({ << flow,
                               flowCompletionStatus(allTasks, includeSubtasks,
                                                    flow).percentage10 >> :
                             flow \in flows })
    IN  IF flows = {} THEN 0
        ELSE IF Cardinality(flows) = 2 /\ sum10 \in HalvesRoundedDown
        THEN sum10 \div 2
        ELSE RoundDiv(sum10, Cardinality(flows))

\* The list_flows handler with the default criteria (every flow, no search
\* pattern, status filter 'all'): the numbers of its response.  flows maps
\* each flow to its usage count and completion; analytics is left out
\* (<<>>) unless includeAnalytics.
list_flows(f, includeSubtasks, includeAnalytics) ==
    IF ~f.exists
    THEN [op |-> "list_flows", isError |-> TRUE, kind |-> "no_tasks"]
    ELSE
        LET keys  == TermMapKeys(f.tasks, includeSubtasks, "flowNames")
            flows == AllTerms(f.tasks, includeSubtasks, "flowNames")
        IN  [op |-> "list_flows", isError |-> FALSE, kind |-> "list",
             summary |->
                 [total |-> Cardinality(flows),
                  totalUsages |->
                      Cardinality(TermUses(f.tasks, includeSubtasks,
                                           "flowNames")),
                  averagePerTask100 |->
                      averageTermsPerTask100(f.tasks, includeSubtasks,
                                             "flowNames"),
                  tasksWith |-> Cardinality(keys),
                  tasksWithout |->
                      tasksWithoutTerms(f.tasks, includeSubtasks,
                                        "flowNames")],
             flows |->
                 [flow \in flows |->
                     [usageCount |->
                          Cardinality(TermTasks(f.tasks, includeSubtasks,
                                                "flowNames", flow)),
                      completion |->
                          flowCompletionStatus(f.tasks, includeSubtasks,
                                               flow)]],
             analytics |->
                 IF includeAnalytics
                 THEN << [averageCompletion10 |->
                              averageCompletion10(f.tasks, includeSubtasks),
                          totalTasks |-> Len(f.tasks),
                          coveragePercentage10 |->
                              coveragePercentage10(Cardinality(keys),
                                                   Len(f.tasks))] >>
                 ELSE <<>>]

\* The list_keywords handler with the default criteria: the numbers of its
\* response.
list_keywords(f, includeSubtasks, includeAnalytics) ==
    IF ~f.exists
    THEN [op |-> "list_keywords", isError |-> TRUE, kind |-> "no_tasks"]
    ELSE
        LET keys     == TermMapKeys(f.tasks, includeSubtasks, "keywords")
            keywords == AllTerms(f.tasks, includeSubtasks, "keywords")
        IN  [op |-> "list_keywords", isError |-> FALSE, kind |-> "list",
             summary |->
                 [total |-> Cardinality(keywords),
                  totalUsages |->
                      Cardinality(TermUses(f.tasks, includeSubtasks,
                                           "keywords")),
                  averagePerTask100 |->
                      averageTermsPerTask100(f.tasks, includeSubtasks,
                                             "keywords"),
                  tasksWith |-> Cardinality(keys),
                  tasksWithout |->
                      tasksWithoutTerms(f.tasks, includeSubtasks,
                                        "keywords")],
             keywords |->
                 [keyword \in keywords |->
                     [usageCount |->
                          Cardinality(TermTasks(f.tasks, includeSubtasks,
                                                "keywords", keyword))]],
             analytics |->
                 IF includeAnalytics
                 THEN << [totalTasks |-> Len(f.tasks),
                          coveragePercentage10 |->
                              coveragePercentage10(Cardinality(keys),
                                                   Len(f.tasks))] >>
                 ELSE <<>>]

(***************************************************************************)
(* The collections the analytics are run on                                *)
(***************************************************************************)

\* The flowNames and keywords of a task: missing, empty, one or two names.
FlowNamesInputs ==
    { <<>>, << <<>> >>, << <<"checkout">> >>, << <<"checkout", "signup">> >> }
KeywordsInputs == { <<>>, << <<"api">> >>, << <<"api", "db">> >> }

AnalyticsFiles ==
    { [exists |-> TRUE,
       tasks  |-> << AnalyticsTask(1, s1, f1, k1,
                                   << AnalyticsSub(1, ss, fs, <<>>) >>),
                     AnalyticsTask(2, s2, f2, << <<"api">> >>, <<>>),
                     AnalyticsTask(3, "done", << <<"signup">> >>, <<>>,
                                   <<>>) >>] :
        s1 \in {"pending", "done"}, f1 \in FlowNamesInputs,
        k1 \in KeywordsInputs, ss \in {"pending", "completed"},
        fs \in { <<>>, << <<"checkout">> >> },
        s2 \in {"in-progress", "done"}, f2 \in FlowNamesInputs }
    \cup { [exists |-> TRUE,
            tasks  |-> << AnalyticsTask(1, s1, f1, k1, <<>>) >>] :
             s1 \in {"pending", "done"}, f1 \in FlowNamesInputs,
             k1 \in KeywordsInputs }
    \cup { [exists |-> TRUE, tasks |-> <<>>],
           [exists |-> FALSE, tasks |-> <<>>] }

InitAnalytics ==
    /\ file \in AnalyticsFiles
    /\ resp = Response("none", <<>>, FALSE, "none", <<>>, <<>>)
    /\ now = 0
    /\ callers = <<>>
    /\ stack = <<>>

ListTasks ==
    /\ \E withSubtasks \in BOOLEAN : resp' = list_tasks(file, withSubtasks)
    /\ UNCHANGED <<file, now, callers, stack>>

ListFlows ==
    /\ \E includeSubtasks \in BOOLEAN, includeAnalytics \in BOOLEAN :
          resp' = list_flows(file, includeSubtasks, includeAnalytics)
    /\ UNCHANGED <<file, now, callers, stack>>

ListKeywords ==
    /\ \E includeSubtasks \in BOOLEAN, includeAnalytics \in BOOLEAN :
          resp' = list_keywords(file, includeSubtasks, includeAnalytics)
    /\ UNCHANGED <<file, now, callers, stack>>

NextAnalytics ==
    \/ ListTasks
    \/ ListFlows
    \/ ListKeywords
    \/ StatusReport

SpecAnalytics == InitAnalytics /\ [][NextAnalytics]_vars

(***************************************************************************)
(* expand_task                                                             *)
(***************************************************************************)

\* The expand_task handler: the instructions name the id the generated
\* subtasks start from, (task.subtasks?.length || 0) + 1.
expand_task(f, taskId) ==
    LET ti == FindIndex(f.tasks, taskId)
        Resp(isError, kind, nextSubtaskId) ==
            [op |-> "expand_task", isError |-> isError, kind |-> kind,
             taskId |-> taskId, nextSubtaskId |-> nextSubtaskId]
    IN  IF ~f.exists THEN Resp(TRUE, "no_tasks", 0)
        ELSE IF ti = 0 THEN Resp(TRUE, "not_found", 0)
        ELSE Resp(FALSE, "instructions", Len(f.tasks[ti].subtasks) + 1)

ExpandTaskIdInputs == {1, 2, 9}

ExpandTask ==
    /\ \E taskId \in ExpandTaskIdInputs : resp' = expand_task(file, taskId)
    /\ UNCHANGED <<file, now, callers, stack>>

\* expand_task between calls that add and remove subtasks.
NextExpand ==
    \/ AddSubtask
    \/ RemoveSubtask
    \/ ExpandTask

SpecExpand == Init /\ [][NextExpand]_vars

(***************************************************************************)
(* String similarity of the fuzzy matching utilities                       *)
(***************************************************************************)

\* The longest string the similarity is computed for.
MaxStringLength == 3

\* The strings of up to MaxStringLength characters over two letters.
SimilarityStrings ==
    UNION { [1..n -> {"a", "b"}] : n \in 0..MaxStringLength }

Min3(a, b, c) == Min(a, Min(b, c))

\* matrix[j][i] of levenshteinDistance as it would be if a deletion cost 2.
RECURSIVE LevenshteinCellWeighted(_, _, _, _)
LevenshteinCellWeighted(str1, str2, j, i) ==
    IF j = 0 THEN i
    ELSE IF i = 0 THEN j
    ELSE LET indicator == IF str1[i] = str2[j] THEN 0 ELSE 1
         IN  Min3(LevenshteinCellWeighted(str1, str2, j, i - 1) + 2,
                  LevenshteinCellWeighted(str1, str2, j - 1, i) + 1,
                  LevenshteinCellWeighted(str1, str2, j - 1, i - 1)
                      + indicator)

\* matrix[j][i] of levenshteinDistance: row 0 and column 0 hold the index,
\* every other cell the minimum of deletion, insertion and substitution.
RECURSIVE LevenshteinCell(_, _, _, _)
LevenshteinCell(str1, str2, j, i) ==
    IF j = 0 THEN i
    ELSE IF i = 0 THEN j
    ELSE LET indicator == IF str1[i] = str2[j] THEN 0 ELSE 1
         IN  Min3(LevenshteinCell(str1, str2, j, i - 1) + 1,
                  LevenshteinCell(str1, str2, j - 1, i) + 1,
                  LevenshteinCell(str1, str2, j - 1, i - 1) + indicator)

\* return matrix[str2.length][str1.length]
levenshteinDistance(str1, str2) ==
    LevenshteinCell(str1, str2, Len(str2), Len(str1))

RECURSIVE Gcd(_, _)
Gcd(a, b) == IF b = 0 THEN a ELSE Gcd(b, a % b)

\* The number num / den in lowest terms, as <<numerator, denominator>>.
Fraction(num, den) == << num \div Gcd(num, den), den \div Gcd(num, den) >>

\* calculateSimilarity: 1 for two empty strings, else
\* 1 - editDistance / maxLen, kept as the fraction (maxLen - editDistance)
\* / maxLen in lowest terms.  Equal fractions are equal doubles, and the
\* double is 1 only for the fraction 1.
calculateSimilarity(str1, str2) ==
    LET maxLen == Max(Len(str1), Len(str2))
        editDistance == levenshteinDistance(str1, str2)
    IN  IF maxLen = 0 THEN Fraction(1, 1)
        ELSE Fraction(maxLen - editDistance, maxLen)

InitSimilarity ==
    /\ file = [exists |-> FALSE, tasks |-> <<>>]
    /\ resp = Response("none", <<>>, FALSE, "none", <<>>, <<>>)
    /\ now = 0
    /\ callers = <<>>
    /\ stack = <<>>

\* A call of calculateSimilarity; the response keeps the two arguments.
CalculateSimilarity ==
    /\ \E str1 \in SimilarityStrings, str2 \in SimilarityStrings :
          resp' = [op |-> "calculateSimilarity", isError |-> FALSE,
                   str1 |-> str1, str2 |-> str2,
                   similarity |-> calculateSimilarity(str1, str2)]
    /\ UNCHANGED <<file, now, callers, stack>>

NextSimilarity == CalculateSimilarity

SpecSimilarity == InitSimilarity /\ [][NextSimilarity]_vars

(***************************************************************************)
(* The work loop: next_task, then set_task_status(done) on the task it     *)
(* returned, until next_task returns no task                               *)
(***************************************************************************)

\* The collections the loop is started on: three tasks, pending or
\* in-progress, the first with a subtask; task 2 depends on nothing, on
\* task 1 or on subtask 1.1, task 3 on nothing or on task 1, the subtask on
\* nothing or on task 3.
LoopDependencyInputs ==
    { <<>>, << Num(1) >>, << Str(<<"1", ".", "1">>) >> }

LoopFiles ==
    { [exists |-> TRUE,
       tasks  |-> QueryProject(s1, ss, sd, s2, p2, d2, s3, p3, d3)] :
        s1 \in {"pending", "in-progress"}, ss \in {"pending", "done"},
        sd \in { <<>>, << Num(3) >> },
        s2 \in {"pending", "in-progress"},
        p2 \in {"high", "low"}, d2 \in LoopDependencyInputs,
        s3 \in {"pending", "in-progress"}, p3 \in {"high", "unset"},
        d3 \in { <<>>, << Num(1) >> } }

InitLoop ==
    /\ file \in LoopFiles
    /\ resp = Response("none", <<>>, FALSE, "none", <<>>, <<>>)
    /\ now = 0
    /\ callers = <<>>
    /\ stack = <<>>

\* The caller asks for the next task: at the start and after every
\* set_task_status.
LoopNextTask ==
    /\ resp.op # "next_task"
    /\ resp' = next_task(file)
    /\ UNCHANGED <<file, now, callers, stack>>

\* The caller marks the task it was given as done.
LoopSetDone ==
    /\ resp.op = "next_task"
    /\ resp.kind = "found"
    /\ LET r == set_task_status(file, NatToString(resp.nextTask[1]), "done",
                                TRUE)
       IN  /\ file' = r.file
           /\ resp' = r.resp
    /\ now' = now + 1
    /\ UNCHANGED <<callers, stack>>

NextLoop ==
    \/ LoopNextTask
    \/ LoopSetDone

\* The caller's side of LoopSetDone: holding the task it was given, it makes
\* its call.  set_task_status answers every call, so this step can be taken
\* exactly when LoopSetDone can, and the steps of NextLoop that advance the
\* clock are the LoopSetDone steps.
LoopSetDoneCalled ==
    /\ resp.op = "next_task"
    /\ resp.kind = "found"
    /\ now' = now + 1

\* The caller keeps going: it asks again after every answer of
\* set_task_status and marks every task it is given.
SpecLoop ==
    /\ InitLoop
    /\ [][NextLoop]_vars
    /\ WF_vars(LoopNextTask)
    /\ WF_now(LoopSetDoneCalled)

(***************************************************************************)
(* Properties of the queries                                               *)
(***************************************************************************)

\* The statuses that keep a task out of next_task's candidates.
NotWorkable == {"done", "completed", "blocked", "deferred", "cancelled"}

\* The dependency entry denotes a task or subtask that is done or completed.
ResolvesToCompleted(tasks, dep) ==
    /\ Resolve(tasks, dep) # <<0, 0>>
    /\ NodeAt(tasks, Resolve(tasks, dep)).status \in {"done", "completed"}

\* The task next_task returned.
ReturnedTask == file.tasks[FindIndex(file.tasks, resp.nextTask[1])]

\* C11: next_task treats a task as eligible only if its status is none of
\* done, completed, blocked, deferred, cancelled and every entry of its
\* dependency list resolves to a task or subtask that is done or completed;
\* a task of a workable status without dependencies is eligible, so that
\* next_task returns a task whenever there is one.
C11_EligibleOnlyIfWorkableAndSatisfied ==
    /\ \A i \in 1..Len(file.tasks) :
          LET task == file.tasks[i]
          IN  /\ IsEligible(file.tasks, task) =>
                    /\ task.status \notin NotWorkable
                    /\ \A k \in 1..Len(task.dependencies) :
                          ResolvesToCompleted(file.tasks, task.dependencies[k])
              /\ (task.status \notin NotWorkable /\ task.dependencies = <<>>)
                    => IsEligible(file.tasks, task)
    /\ (resp.op = "next_task" /\ resp.kind = "found") =>
          /\ ReturnedTask.status \notin NotWorkable
          /\ \A k \in 1..Len(ReturnedTask.dependencies) :
                ResolvesToCompleted(file.tasks, ReturnedTask.dependencies[k])
    /\ (resp.op = "next_task" /\ resp.kind # "found") =>
          \A i \in 1..Len(file.tasks) :
             ~(/\ file.tasks[i].status \notin NotWorkable
               /\ file.tasks[i].dependencies = <<>>)

\* next_task returned a task with a dependency while another task of a
\* workable status was passed over for its dependencies.
C11_Witness ==
    /\ resp.op = "next_task"
    /\ resp.kind = "found"
    /\ ReturnedTask.dependencies # <<>>
    /\ \E i \in 1..Len(file.tasks) :
          /\ file.tasks[i].status \notin NotWorkable
          /\ file.tasks[i].id < ReturnedTask.id
          /\ ~IsEligible(file.tasks, file.tasks[i])

\* The rank of a priority: unset and unrecognized priorities count as medium.
PriorityRank(p) == CASE p = "high" -> 3 [] p = "low" -> 1 [] OTHER -> 2

\* The number of dependency entries, of tasks and of subtasks, that name the
\* task at position i.
Dependents(tasks, i) ==
    Cardinality({ e \in DependencyEntries(tasks) :
                    Resolve(tasks, EntryAt(tasks, e)) = <<i, 0>> })

InProgressRank(task) == IF task.status = "in-progress" THEN 1 ELSE 0

\* The key next_task orders by; a and b are positions in tasks.
RankKey(tasks, i) ==
    << InProgressRank(tasks[i]), PriorityRank(tasks[i].priority),
       Dependents(tasks, i), 0 - tasks[i].id >>

\* Key x comes before key y: lexicographic, larger first.
ComesBefore(x, y) ==
    \E n \in 1..4 : x[n] > y[n] /\ \A m \in 1..(n - 1) : x[m] = y[m]

\* C12: next_task returns the eligible task that comes first when ordering
\* by in-progress first, then priority (high, medium, low; unset or
\* unrecognized as medium), then the higher number of dependents over task
\* and subtask dependency lists, then the lowest id; it returns none only
\* when no task is eligible.
C12_ReturnsFirstByRank ==
    resp.op = "next_task" /\ ~resp.isError =>
        LET eligible == { i \in 1..Len(file.tasks) :
                            IsEligible(file.tasks, file.tasks[i]) }
        IN  IF eligible = {} THEN resp.nextTask = <<>>
            ELSE /\ resp.kind = "found"
                 /\ \E r \in eligible :
                       /\ file.tasks[r].id = resp.nextTask[1]
                       /\ \A i \in eligible \ {r} :
                             ComesBefore(RankKey(file.tasks, r),
                                         RankKey(file.tasks, i))

\* next_task returned task 3 although task 2 was eligible too, with the same
\* status and the same priority rank: the number of dependents decided.
C12_Witness ==
    /\ resp.op = "next_task"
    /\ resp.kind = "found"
    /\ resp.nextTask = <<3>>
    /\ IsEligible(file.tasks, file.tasks[2])
    /\ file.tasks[2].status = file.tasks[3].status
    /\ file.tasks[2].priority = "urgent"
    /\ file.tasks[3].priority = "unset"

\* C13: the dependency check of the status report is true for an empty
\* dependency list on any collection and false as soon as one of the ids
\* resolves to no task or subtask.
C13_DependencyCheckFailsClosed ==
    /\ areAllDependenciesCompleted(<<>>, file.tasks)
    /\ \A deps \in QueryDependencyInputs :
          (\E k \in 1..Len(deps) : Resolve(file.tasks, deps[k]) = <<0, 0>>)
              => ~areAllDependenciesCompleted(deps, file.tasks)
    /\ (resp.op = "status_report_to_user" /\ ~resp.isError) =>
          \A n \in 1..Len(resp.rows) :
             LET row == resp.rows[n]
             IN  /\ row.dependencies = <<>> => row.allDepsCompleted
                 /\ (\E k \in 1..Len(row.dependencies) :
                        Resolve(file.tasks, row.dependencies[k]) = <<0, 0>>)
                       => ~row.allDepsCompleted

\* A report with a row without dependencies and a row that depends on an id
\* of no task.
C13_Witness ==
    /\ resp.op = "status_report_to_user"
    /\ \E n \in 1..Len(resp.rows) : resp.rows[n].dependencies = <<>>
    /\ \E n \in 1..Len(resp.rows) :
          /\ resp.rows[n].dependencies = << Num(9) >>
          /\ ~resp.rows[n].allDepsCompleted

(***************************************************************************)
(* Properties of concurrent calls                                          *)
(***************************************************************************)

\* Caller c has stored a document.
HasWritten(c) == callers[c].pc = "done" /\ callers[c].wroteAt > 0

\* The document caller c computes from what it loaded.
DocumentOf(c) ==
    set_task_status(callers[c].data, callers[c].taskIds, callers[c].status,
                    TRUE).file

\* C14: the last full-file write wins: once two callers have both written,
\* the collection is the document the later writer computed from its own
\* load, whatever the other caller stored in between; when the later writer
\* had loaded before the other wrote, the other caller's change is absent.
C14_LastWriteWins ==
    callers # <<>> =>
        \A c \in Callers, d \in Callers :
            (/\ HasWritten(c)
             /\ HasWritten(d)
             /\ callers[c].wroteAt < callers[d].wroteAt)
            => file = DocumentOf(d)

\* Both callers reported success, the second to write had loaded before the
\* first wrote, and the status the first one set is not in the collection.
C14_Witness ==
    /\ callers # <<>>
    /\ \E c \in Callers, d \in Callers :
          /\ HasWritten(c)
          /\ HasWritten(d)
          /\ callers[d].loadedAt < callers[c].wroteAt
          /\ callers[c].wroteAt < callers[d].wroteAt
          /\ callers[c].taskIds = <<"1">>
          /\ callers[c].status = "done"
          /\ callers[c].resp.updated # <<>>
          /\ callers[d].taskIds = <<"2">>
          /\ file.tasks[1].status # "done"

(***************************************************************************)
(* Properties of the batch of remove_subtask                               *)
(***************************************************************************)

\* The entries of the list at the positions of K, in the order of the list.
RECURSIVE PickIds(_, _, _)
PickIds(ids, K, k) ==
    IF k > Len(ids) THEN <<>>
    ELSE (IF k \in K THEN <<ids[k]>> ELSE <<>>) \o PickIds(ids, K, k + 1)

\* The positions of the id list whose id is well-formed and denotes a subtask
\* of the collection that no earlier id of the list denotes.
ResolvingPositions(tasks, ids) ==
    { k \in 1..Len(ids) :
        /\ Includes(ids[k], ".")
        /\ findTaskById(tasks, ids[k]).found
        /\ \A j \in 1..(k - 1) :
              ~(/\ Includes(ids[j], ".")
                /\ findTaskById(tasks, ids[j]) = findTaskById(tasks, ids[k])) }

\* C15: a remove_subtask call with a list of ids removes (or converts) every
\* id that resolves and reports one error for every other id, whatever the
\* position of the failing ids in the list.
C15_BatchContinuesAfterError ==
    [][ (resp'.op = "remove_subtask" /\ ~resp'.isError) =>
          LET ids  == SplitIds(resp'.args[1])
              hits == ResolvingPositions(file.tasks, ids)
              gone == { << findTaskById(file.tasks, ids[k]).ti,
                           findTaskById(file.tasks, ids[k]).si >> : k \in hits }
          IN  /\ resp'.updated = PickIds(ids, hits, 1)
              /\ resp'.errors = PickIds(ids, (1..Len(ids)) \ hits, 1)
              /\ \A i \in 1..Len(file.tasks) :
                    /\ file'.tasks[i].id = file.tasks[i].id
                    /\ file'.tasks[i].subtasks =
                          PickIds(file.tasks[i].subtasks,
                                  { j \in 1..Len(file.tasks[i].subtasks) :
                                      <<i, j>> \notin gone }, 1)
              /\ Len(file'.tasks)
                    = Len(file.tasks)
                      + (IF resp'.kind = "converted" THEN Cardinality(hits)
                         ELSE 0) ]_vars

\* A call whose first id was not found and whose second id was removed.
C15_Witness ==
    /\ resp.op = "remove_subtask"
    /\ ~resp.isError
    /\ resp.errors = << <<"1", ".", "9">> >>
    /\ resp.updated = << <<"1", ".", "2">> >>

(***************************************************************************)
(* Properties of the update tools                                          *)
(***************************************************************************)

\* The collection holds a task with this id that is done or completed.
IsCompletedTask(tasks, id) ==
    \E i \in 1..Len(tasks) :
        tasks[i].id = id /\ tasks[i].status \in {"done", "completed"}

UpdateOps ==
    {"update_task_by_id", "update_tasks", "update_tasks_by_flows",
     "analyze_task_complexity"}

\* C16: the content-update tools never touch a task that is done or
\* completed: update_task_by_id answers with an error for such a task,
\* update_tasks and update_tasks_by_flows leave it out of the tasks to
\* update, and none of them changes the collection; set_task_status on such
\* a task is carried out.
C16_CompletedTasksLocked ==
    [][ /\ (resp'.op = "update_task_by_id"
            /\ IsCompletedTask(file.tasks, resp'.args.taskId))
              => resp'.isError
        /\ (resp'.op \in {"update_tasks", "update_tasks_by_flows"}
            /\ ~resp'.isError)
              => \A k \in 1..Len(resp'.tasksToUpdate) :
                    ~IsCompletedTask(file.tasks, resp'.tasksToUpdate[k])
        /\ resp'.op \in UpdateOps => file' = file
        /\ (resp'.op = "set_task_status" /\ Len(file.tasks) > 0)
              => /\ ~resp'.isError
                 /\ resp'.errors = <<>>
                 /\ \A k \in 1..Len(resp'.updated) :
                       LET r == findTaskById(file.tasks, resp'.updated[k])
                       IN  /\ r.found
                           /\ TaskAt(file'.tasks, r).status = resp'.kind
      ]_vars

\* update_task_by_id accepted task 4, which was done until a call of
\* set_task_status reopened it.
C16_Witness ==
    /\ resp.op = "update_task_by_id"
    /\ ~resp.isError
    /\ resp.args.taskId = 4
    /\ now > 0

\* C17: the relevance chain update_tasks builds from a start task with
\* maxDepth = 0 still includes the start task.
C17_ChainAtDepthZeroIncludesSeed ==
    (/\ resp.op = "update_tasks"
     /\ resp.args.taskIds = <<>>
     /\ Truthy(resp.args.fromId)
     /\ resp.args.maxDepth = 0)
    => Num(resp.args.fromId)
          \in buildRelevantTasksChain(file.tasks, resp.args.fromId, {}, 0)

\* C18: whenever the estimated tokens of the tasks to update exceed 15000,
\* the plan of update_tasks (no batch size given) has useBatches set,
\* batchSize <= 5 and totalBatches = ceil(count / batchSize) for the batch
\* size it returns.
C18_PlanConsistentAboveCeiling ==
    (/\ resp.op = "update_tasks"
     /\ ~resp.isError
     /\ resp.args.batchSize = Undefined
     /\ resp.batchConfig.estimatedTokens8 > 15000 * 8)
    => /\ resp.batchConfig.useBatches
       /\ resp.batchConfig.batchSize <= 5
       /\ resp.batchConfig.totalBatches
             = Ceil(Len(resp.tasksToUpdate), resp.batchConfig.batchSize)

\* The plan of a successful call uses the batch size the caller passed,
\* capped by the number of tasks.
PlanUsesBatchSize(r) ==
    /\ r.batchConfig.batchSize = Min(r.args.batchSize, Len(r.tasksToUpdate))
    /\ r.batchConfig.batchSize > 0 =>
          /\ r.batchConfig.totalBatches
                = Ceil(Len(r.tasksToUpdate), r.batchConfig.batchSize)
          /\ r.batchConfig.useBatches = (r.batchConfig.totalBatches > 1)

BatchedOps ==
    {"update_tasks", "update_tasks_by_flows", "analyze_task_complexity"}

\* C19: in update_tasks, update_tasks_by_flows and analyze_task_complexity
\* the plan uses the caller's batch size, capped only by the number of
\* tasks, for every value the caller passes.
C19_ExplicitBatchSizeAlwaysUsed ==
    (/\ resp.op \in BatchedOps
     /\ ~resp.isError
     /\ resp.args.batchSize # Undefined)
    => PlanUsesBatchSize(resp)

\* C19 as amended: the plan uses the caller's batch size, capped only by the
\* number of tasks, for every positive batch size; a batch size of 0 is
\* treated like an absent one.
C19_PositiveBatchSizeUsed ==
    (/\ resp.op \in BatchedOps
     /\ ~resp.isError
     /\ resp.args.batchSize # Undefined
     /\ resp.args.batchSize > 0)
    => PlanUsesBatchSize(resp)

\* update_tasks planned three large tasks, which it would put in batches of
\* one on its own, in two batches of the two tasks the caller asked for.
C19_Witness ==
    /\ resp.op = "update_tasks"
    /\ ~resp.isError
    /\ resp.args.batchSize = 2
    /\ Len(resp.tasksToUpdate) = 3
    /\ determineBatchStrategy(
           tasksToUpdate(file.tasks,
                         { Num(resp.tasksToUpdate[k]) : k \in 1..3 })).batchSize
          # 2
    /\ resp.batchConfig.batchSize = 2
    /\ resp.batchConfig.totalBatches = 2

(***************************************************************************)
(* Properties of clear_subtasks                                            *)
(***************************************************************************)

\* C20: clear_subtasks called without taskIds clears the subtasks of all
\* tasks, whether or not all is set.
C20_NoTaskIdsClearsAll ==
    (/\ resp.op = "clear_subtasks"
     /\ file.exists
     /\ \/ resp.kind = "no_target"
        \/ (~resp.isError /\ resp.args = << <<>> >>))
    => /\ ~resp.isError
       /\ \A i \in 1..Len(file.tasks) : file.tasks[i].subtasks = <<>>

(***************************************************************************)
(* Properties of the analytics                                             *)
(***************************************************************************)

\* The percentages and averages of a response of the analytics.
RatiosOf(r) ==
    IF r.isError THEN {}
    ELSE IF r.op = "list_tasks"
    THEN {r.completionPercentage}
         \cup { r.subtaskStats[k].completionPercentage :
                  k \in 1..Len(r.subtaskStats) }
    ELSE IF r.op = "status_report_to_user"
    THEN {r.completionPercentage}
    ELSE IF r.op \in {"list_flows", "list_keywords"}
    THEN {r.summary.averagePerTask100}
         \cup { r.analytics[k].coveragePercentage10 :
                  k \in 1..Len(r.analytics) }
         \cup (IF r.op = "list_flows"
               THEN { r.flows[flow].completion.percentage10 :
                        flow \in DOMAIN r.flows }
                    \cup { r.analytics[k].averageCompletion10 :
                             k \in 1..Len(r.analytics) }
               ELSE {})
    ELSE {}

AnalyticsOps ==
    {"list_tasks", "list_flows", "list_keywords", "status_report_to_user"}

\* C21: every percentage and average of list_tasks, list_flows,
\* list_keywords and the status report is a number, and it is 0 when its
\* denominator is 0; on a collection without tasks all of them are 0.
C21_ZeroDenominatorYieldsZero ==
    (resp.op \in AnalyticsOps /\ ~resp.isError) =>
        /\ \A x \in RatiosOf(resp) : x # NaN /\ x >= 0
        /\ file.tasks = <<>> => RatiosOf(resp) = {0}

(***************************************************************************)
(* Properties of the string similarity                                     *)
(***************************************************************************)

\* The similarity 1.0.
One == <<1, 1>>

\* C22: the similarity of a string with itself is 1.0, the similarity of
\* the empty string with itself is 1.0, and the similarity of a and b is
\* that of b and a.
C22_SimilarityReflexiveSymmetric ==
    /\ calculateSimilarity(<<>>, <<>>) = One
    /\ resp.op = "calculateSimilarity" =>
          /\ calculateSimilarity(resp.str1, resp.str1) = One
          /\ resp.str1 = resp.str2 => resp.similarity = One
          /\ resp.similarity = calculateSimilarity(resp.str2, resp.str1)

\* The similarity of two different strings of different lengths that share
\* a character has been computed: it is neither 0 nor 1.
C22_Witness ==
    /\ resp.op = "calculateSimilarity"
    /\ resp.str1 = <<"a", "b">>
    /\ resp.str2 = <<"b", "a", "b">>
    /\ resp.similarity = <<2, 3>>

(***************************************************************************)
(* Properties of the relevance chain                                       *)
(***************************************************************************)

\* C23: a started buildRelevantTasksChain returns, whatever cycles the
\* relevantTasks and the dependencies form: the nesting of its calls never
\* exceeds the depth budget by more than the call that returns on entry,
\* and the ids it returns are those of the recursive definition.
C23_ChainTerminates ==
    /\ [](Len(stack) < MaxStack)
    /\ [](\A n \in 1..Len(stack) :
             /\ stack[n].maxDepth = resp.maxDepth - (n - 1)
             /\ Cardinality(stack[n].visited) >= n - 1)
    /\ [](resp.op = "buildRelevantTasksChain" /\ resp.kind = "returned" =>
             resp.relevantIds =
                 buildRelevantTasksChain(file.tasks, resp.startTaskId, {},
                                         resp.maxDepth))
    /\ (stack # <<>>) ~> (stack = <<>> /\ resp.kind = "returned")

\* A chain that was built from task 1 with the full depth budget on a
\* collection where tasks 1 and 2 name each other as relevant and depend on
\* each other has returned.
C23_Witness ==
    /\ resp.op = "buildRelevantTasksChain"
    /\ resp.kind = "returned"
    /\ stack = <<>>
    /\ resp.startTaskId = 1
    /\ resp.maxDepth = MaxChainDepth
    /\ file.tasks[1].relevantTasks = <<2, 3>>
    /\ file.tasks[2].relevantTasks = <<3, 1>>
    /\ file.tasks[1].dependencies = << Num(2) >>
    /\ file.tasks[2].dependencies = << Num(1) >>
    /\ Num(3) \in resp.relevantIds

(***************************************************************************)
(* Properties of show_task                                                 *)
(***************************************************************************)

\* The tasks and subtasks whose dependency list holds the entry, by their
\* ids.
HoldersOf(tasks, entry) ==
    { Num(tasks[i].id) :
        i \in { n \in 1..Len(tasks) :
                  DependenciesInclude(tasks[n].dependencies, entry) } }
    \cup
    UNION { { Str(CompositeId(tasks[i].id, tasks[i].subtasks[j].id)) :
                j \in { n \in 1..Len(tasks[i].subtasks) :
                          DependenciesInclude(
                              tasks[i].subtasks[n].dependencies, entry) } } :
            i \in 1..Len(tasks) }

\* C24: the dependents show_task reports for a task are the tasks and
\* subtasks whose dependency list contains its id, and those it reports for
\* a subtask are the tasks and subtasks whose dependency list contains its
\* composite "parent.sub" id.
C24_DependentsAreTheHolders ==
    (resp.op = "show_task" /\ ~resp.isError) =>
        Range(resp.dependentTasks) = HoldersOf(file.tasks, resp.id[1])

(***************************************************************************)
(* Properties of the batch breakdown                                       *)
(***************************************************************************)

\* C25: the batch breakdown of a batched plan partitions the tasks to be
\* processed: every task is in exactly one batch, every task of a batch is
\* one of them, and no batch holds more than batchSize tasks.
C25_BreakdownPartitionsTasks ==
    (resp.op \in BatchedOps /\ ~resp.isError /\ resp.batchConfig.useBatches) =>
        /\ \A k \in 1..Len(resp.tasksToUpdate) :
              Cardinality({ n \in 1..Len(resp.batchBreakdown) :
                  resp.tasksToUpdate[k] \in Range(resp.batchBreakdown[n]) })
                  = 1
        /\ \A n \in 1..Len(resp.batchBreakdown) :
              /\ Range(resp.batchBreakdown[n]) \subseteq
                     Range(resp.tasksToUpdate)
              /\ Len(resp.batchBreakdown[n]) <= resp.batchConfig.batchSize

(***************************************************************************)
(* Properties of the task tree                                             *)
(***************************************************************************)

\* Every dependency entry of every task and subtask denotes a task or
\* subtask of the collection.
AllDependenciesResolve(tasks) ==
    \A e \in DependencyEntries(tasks) :
        Resolve(tasks, EntryAt(tasks, e)) # <<0, 0>>

\* C26: starting from a collection in which every dependency id resolves,
\* after any sequence of add_dependency, add_subtask, remove_subtask and
\* clear_subtasks calls every dependency id of every task and subtask
\* still resolves to a task or subtask.
C26_DependenciesAlwaysResolve ==
    AllDependenciesResolve(file.tasks)

\* C27: after any sequence of calls, add_subtask of an existing task that
\* has subtasks included, no subtask has subtasks of its own.
C27_TreeTwoLevelsDeep ==
    \A i \in 1..Len(file.tasks) :
        \A j \in 1..Len(file.tasks[i].subtasks) :
            file.tasks[i].subtasks[j].subtasks = <<>>

(***************************************************************************)
(* The two dependency checks                                               *)
(***************************************************************************)

\* C28: for every task of every collection, the dependency test of
\* next_task (every entry is the id of a done or completed task) gives the
\* answer areAllDependenciesCompleted gives for the task's dependency list,
\* also when an entry names a subtask by its composite "parent.sub" id.
C28_DependencyChecksAgree ==
    \A i \in 1..Len(file.tasks) :
        LET task == file.tasks[i]
        IN  (\A k \in 1..Len(task.dependencies) :
                HasCompleted(file.tasks, task.dependencies[k]))
            <=> areAllDependenciesCompleted(task.dependencies, file.tasks)

(***************************************************************************)
(* Properties of expand_task                                               *)
(***************************************************************************)

\* C29: the next subtask id expand_task reports for a task is the id
\* add_subtask would give the task's next subtask, and no subtask of the
\* task has it, whatever subtasks were added and removed before.
C29_ExpandAgreesWithAddSubtask ==
    (resp.op = "expand_task" /\ ~resp.isError) =>
        LET task == file.tasks[FindIndex(file.tasks, resp.taskId)]
        IN  /\ resp.nextSubtaskId = NextSubtaskId(task.subtasks)
            /\ \A j \in 1..Len(task.subtasks) :
                  task.subtasks[j].id # resp.nextSubtaskId

(***************************************************************************)
(* Properties of the work loop                                             *)
(***************************************************************************)

AllTasksDone ==
    \A i \in 1..Len(file.tasks) :
        file.tasks[i].status \in {"done", "completed"}

\* The tasks are pending or in-progress, every dependency entry denotes a
\* task or subtask, and nothing depends on itself.
LoopPrecondition ==
    /\ \A i \in 1..Len(file.tasks) :
          file.tasks[i].status \in {"pending", "in-progress"}
    /\ AllDependenciesResolve(file.tasks)
    /\ Acyclic(file.tasks)

\* C30: on a collection whose tasks are pending or in-progress and whose
\* dependencies resolve and are acyclic, the loop of next_task and
\* set_task_status(done) on the returned task gets a task back as long as
\* some task is not done, and eventually every task is done.
C30_LoopFinishesEveryTask ==
    LoopPrecondition =>
        /\ []((resp.op = "next_task" /\ resp.kind # "found") => AllTasksDone)
        /\ <>AllTasksDone

====
